---- MODULE Spec2Model ----
(***************************************************************************)
(* The threaded translation pipeline of src/pipeline.py: the coordinator   *)
(* (Pipeline.start / Pipeline.stop), the three worker threads              *)
(* (_audio_producer, _whisper_worker, _ollama_worker), the two bounded     *)
(* queue.Queue objects between them and the statistics counters.           *)
(*                                                                         *)
(* Every worker is a process whose steps are the statements of its loop    *)
(* that touch shared state (the running flag, a queue, the stats lock, a   *)
(* collaborator).  The caller's thread is a process too, so start() and    *)
(* stop() interleave with the workers statement by statement.              *)
(*                                                                         *)
(* Thread.join(timeout=5) returns either because the thread has ended or   *)
(* because the timeout expired, so a worker of an earlier start() can      *)
(* still be alive when start() is called again: workers are indexed by the *)
(* start() call that launched them.                                        *)
(***************************************************************************)
EXTENDS Integers, Sequences, FiniteSets, TLC

\* ------------------------------------------------------------------------
\* Bounds of the model
\* ------------------------------------------------------------------------

\* maxsize of both queue.Queue objects.  The source constructs them with
\* maxsize=20 (pipeline.py:75-76); the model is checked at a small capacity
\* so that a full queue is reached within the chunk budget.
QueueMaxsize == 2

\* Non-silent chunks the producers capture in one behaviour: more than a
\* queue holds, so that the queues fill.
MaxChunks == 3

\* Segments WhisperEngine.transcribe returns for one chunk, at most.
MaxSegments == 2

\* Segments the transcribe calls of one behaviour return in all: more than
\* a queue holds.
MaxTotalSegments == 3

\* start() calls that create threads in one behaviour.
MaxStarts == 1

\* start() calls after a stop() has returned, in one behaviour of SpecRestart.
MaxRestarts == 1

\* Non-silent chunks captured in one behaviour of SpecRestart.
RestartChunks == 1

\* Non-silent chunks captured in one behaviour of SpecStats.
StatsChunks == 1

\* Blocks the audio thread appends in one behaviour of SpecCapture.
MaxBlocks == 3

\* ------------------------------------------------------------------------
\* Program constants
\* ------------------------------------------------------------------------

\* pipeline.py:187  `if rms < 0.001`, in units of 0.001
SilenceThreshold == 1

\* rms levels of a captured chunk, in units of 0.001: 0 is silence, 1 is a
\* chunk exactly at the threshold (not silent: the test is strict)
RmsLevels == {0, 1}

\* language tags WhisperModel reports (info.language); "ru" and "en" are the
\* two OllamaEngine.translate recognizes
Langs == {"ru", "en", "de"}

Roles == <<"producer", "whisper", "ollama">>

Gens == 1..(MaxStarts + MaxRestarts)

Workers == Gens \X {"producer", "whisper", "ollama"}

\* a reference to a newly constructed object replacing reference r
\* (0 is None; objects are not told apart)
NewRef(r) == 1

Min(a, b) == IF a <= b THEN a ELSE b

Max(a, b) == IF a >= b THEN a ELSE b

\* the last n elements of s
LastN(s, n) == SubSeq(s, Len(s) - n + 1, Len(s))

\* ------------------------------------------------------------------------
\* State
\* ------------------------------------------------------------------------
VARIABLES
    running,            \* Pipeline._running
    audio_queue,        \* Pipeline._audio_queue: chunks, oldest first
    transcript_queue,   \* Pipeline._transcript_queue: segments, oldest first
    threads,            \* Pipeline._threads: the workers of the last start()
    stats,              \* Pipeline._stats (the four counters)
    engines,            \* Pipeline._whisper / _ollama / _capture: 0 is None,
                        \* 1 an object
    capturing,          \* AudioCapture._is_capturing of Pipeline._capture
    cpc,                \* the caller's thread: where it is in start()/stop()
    ci,                 \* the caller's loop index in `for t in self._threads`
    nstarts,            \* start() calls that created threads so far
    ret,                \* how the caller's last start()/stop() call ended
    warm_up,            \* result of warm_up() in the start() in progress
    pc,                 \* each worker thread's position
    audio,              \* local `audio` of a producer or whisper worker
    segments,           \* whisper worker: segments not yet iterated by
                        \* `for seg in segments` (head = current seg)
    seg,                \* ollama worker: local `seg`
    result,             \* ollama worker: local `result`
    nsegs,              \* segments produced so far (names the segments)
    request,            \* ollama worker: how the HTTP request of the translate
                        \* call in progress ended ("none": no request made)
    last_delivered,     \* the segment of the last PipelineItem handed to the
                        \* sink (0: none yet)
    ndelivered,         \* the PipelineItems handed to the sink so far
    stats_lock,         \* Pipeline._stats_lock: "free", or who holds it
    rpc,                \* a thread reading the stats property: where it is
    ri,                 \* the reader's position in the copy of the dict
    snapshot,           \* the dict the stats property builds and returns
    audio_buffer,       \* AudioCapture._audio_buffer: the blocks appended
    capture_lock,       \* AudioCapture._lock: "free", or who holds it
    kpc,                \* the audio thread: where it is in _audio_callback
    gpc,                \* a thread in get_audio_chunk: where it is
    raw,                \* local `raw` of get_audio_chunk (the blocks joined)
    nblocks,            \* blocks appended so far (names the blocks)
    returned,           \* the blocks of the chunks get_audio_chunk has
                        \* returned, in the order returned
    hist,               \* per queue: the items whose push has completed,
                        \* in that order, kept while the queue is undisturbed
    disturbed           \* per queue: an item was removed by get()/drain, or
                        \* two pushes overlapped

vars == <<running, audio_queue, transcript_queue, threads, stats, engines,
          capturing, cpc, ci, nstarts, ret, warm_up, pc, audio, segments,
          seg, result, nsegs, request, last_delivered, ndelivered, stats_lock,
          rpc, ri,
          snapshot, audio_buffer, capture_lock, kpc, gpc, raw, nblocks,
          returned, hist, disturbed>>

pipeline_vars == <<running, audio_queue, transcript_queue, threads, stats,
                   engines, capturing>>

caller_vars == <<cpc, ci, nstarts, ret, warm_up>>

local_vars == <<audio, segments, seg, result, nsegs>>

ghost_vars == <<hist, disturbed>>

\* what the translation stage's collaborator and sink have seen
sink_vars == <<request, last_delivered, ndelivered>>

\* the capture buffer, its lock, and the two threads that touch it
capture_vars == <<audio_buffer, capture_lock, kpc, gpc, raw, nblocks, returned>>

\* a reader of the stats property, and the lock it takes
reader_vars == <<stats_lock, rpc, ri, snapshot>>

\* the counters of Pipeline._stats, in the order of the dict (lines 88-93)
Fields == <<"chunks_captured", "chunks_transcribed", "chunks_translated",
            "chunks_dropped">>

\* no snapshot: a dict with nothing copied into it yet
NoSnapshot == [chunks_captured |-> 0, chunks_transcribed |-> 0,
               chunks_translated |-> 0, chunks_dropped |-> 0]

\* `audio is None or len(audio) == 0`; also a local that is not live
NoAudio == [id |-> 0, n |-> 0, rms |-> 0]

NoSeg == [id |-> 0, language |-> "none"]

\* translate() returned None
NoResult == [present |-> FALSE, source_text |-> 0, target_language |-> "none"]

Init ==
    /\ running = FALSE
    /\ audio_queue = <<>>
    /\ transcript_queue = <<>>
    /\ threads = <<>>
    /\ stats = [chunks_captured |-> 0, chunks_transcribed |-> 0,
                chunks_translated |-> 0, chunks_dropped |-> 0]
    /\ engines = [whisper |-> 0, ollama |-> 0, capture |-> 0]
    /\ capturing = FALSE
    /\ cpc = "idle"
    /\ ci = 0
    /\ nstarts = 0
    /\ ret = "none"
    /\ warm_up = "none"
    /\ pc = [w \in Workers |-> "unborn"]
    /\ audio = [w \in Workers |-> NoAudio]
    /\ segments = [w \in Workers |-> <<>>]
    /\ seg = [w \in Workers |-> NoSeg]
    /\ result = [w \in Workers |-> NoResult]
    /\ nsegs = 0
    /\ request = [w \in Workers |-> "none"]
    /\ last_delivered = 0
    /\ ndelivered = 0
    /\ audio_buffer = <<>>
    /\ capture_lock = "free"
    /\ kpc = "idle"
    /\ gpc = "idle"
    /\ raw = <<>>
    /\ nblocks = 0
    /\ returned = <<>>
    /\ stats_lock = "free"
    /\ rpc = "idle"
    /\ ri = 0
    /\ snapshot = NoSnapshot
    /\ hist = [aq |-> <<>>, tq |-> <<>>]
    /\ disturbed = [aq |-> FALSE, tq |-> FALSE]

\* ------------------------------------------------------------------------
\* queue.Queue
\* ------------------------------------------------------------------------

\* a queue without a capacity: put_nowait never raises
QueueFull_never(q) == FALSE

\* put_nowait raises queue.Full
QueueFull(q) == Len(q) >= QueueMaxsize

\* get_nowait raises queue.Empty; get(timeout=1) times out
QueueEmpty(q) == Len(q) = 0

\* the queue after put_nowait(x) did not raise
QueuePut(q, x) == Append(q, x)

\* a get that removes the newest item instead of the oldest
QueueGet_newest(q) == SubSeq(q, 1, Len(q) - 1)

\* a get that returns the head and leaves it on the queue
QueueGet_peek(q) == q

\* the queue after get() / get_nowait() returned its head
QueueGet(q) == Tail(q)

\* bookkeeping: queue k lost an item to a get()/drain, or pushes overlapped
Disturb(k) ==
    /\ disturbed' = [disturbed EXCEPT ![k] = TRUE]
    /\ hist' = [hist EXCEPT ![k] = <<>>]

\* bookkeeping: the push of item `id` onto queue k has completed
Completed(k, id) ==
    /\ hist' = [hist EXCEPT ![k] = IF disturbed[k] THEN <<>> ELSE Append(@, id)]
    /\ UNCHANGED disturbed

\* ------------------------------------------------------------------------
\* Pipeline.start  (pipeline.py:98-145), run by the caller's thread
\* ------------------------------------------------------------------------

\* start() without its guard
AlreadyRunning_never == FALSE

\* line 100: `if self._running`
AlreadyRunning == running

\* the caller calls start(); MaxStarts bounds the calls that create threads
CallStart ==
    /\ cpc = "idle"
    /\ running \/ nstarts < MaxStarts
    /\ cpc' = "start"
    /\ ret' = "none"
    /\ UNCHANGED <<ci, nstarts, warm_up>>
    /\ UNCHANGED <<pipeline_vars, pc, local_vars, ghost_vars, sink_vars, reader_vars, capture_vars>>

\* the caller calls start() again after a stop() has returned; MaxRestarts
\* bounds these calls
CallRestart ==
    /\ cpc = "idle"
    /\ ret = "stop:ok"
    /\ ~running
    /\ nstarts >= MaxStarts
    /\ nstarts < MaxStarts + MaxRestarts
    /\ cpc' = "start"
    /\ ret' = "none"
    /\ UNCHANGED <<ci, nstarts, warm_up>>
    /\ UNCHANGED <<pipeline_vars, pc, local_vars, ghost_vars, sink_vars, reader_vars, capture_vars>>

\* lines 100-104: already running: print and return; otherwise go on
StartCheck ==
    /\ cpc = "start"
    /\ IF AlreadyRunning
       THEN /\ cpc' = "idle"
            /\ ret' = "start:already_running"
       ELSE /\ cpc' = "init_whisper"
            /\ UNCHANGED ret
    /\ UNCHANGED <<ci, nstarts, warm_up>>
    /\ UNCHANGED <<pipeline_vars, pc, local_vars, ghost_vars, sink_vars, reader_vars, capture_vars>>

\* an exception leaves start(): it propagates to the caller
StartRaise ==
    /\ cpc' = "idle"
    /\ ret' = "start:raised"
    /\ warm_up' = "none"

\* line 107: self._whisper = WhisperEngine(); WhisperModel(...) may raise
\* (whisper_engine.py:85), and then the assignment does not happen
StartInitWhisper ==
    /\ cpc = "init_whisper"
    /\ \/ /\ engines' = [engines EXCEPT !.whisper = NewRef(@)]
          /\ cpc' = "init_ollama"
          /\ UNCHANGED <<ret, warm_up>>
       \/ /\ StartRaise
          /\ UNCHANGED engines
    /\ UNCHANGED <<running, audio_queue, transcript_queue, threads, stats, capturing>>
    /\ UNCHANGED <<ci, nstarts>>
    /\ UNCHANGED <<pc, local_vars, ghost_vars, sink_vars, reader_vars, capture_vars>>

\* line 108: self._ollama = OllamaEngine(); the constructor's
\* _verify_connection (ollama_engine.py:91-122) catches every exception and
\* only prints, so the construction does not raise when Ollama is down
StartInitOllama ==
    /\ cpc = "init_ollama"
    /\ engines' = [engines EXCEPT !.ollama = NewRef(@)]
    /\ cpc' = "init_capture"
    /\ UNCHANGED <<running, audio_queue, transcript_queue, threads, stats, capturing>>
    /\ UNCHANGED <<ci, nstarts, ret, warm_up>>
    /\ UNCHANGED <<pc, local_vars, ghost_vars, sink_vars, reader_vars, capture_vars>>

\* lines 109-112: self._capture = AudioCapture(...); pyaudio.PyAudio() may
\* raise (capture.py:59); the new object is not capturing (capture.py:61)
StartInitCapture ==
    /\ cpc = "init_capture"
    /\ \/ /\ engines' = [engines EXCEPT !.capture = NewRef(@)]
          /\ capturing' = FALSE
          /\ cpc' = "warm_up"
          /\ UNCHANGED <<ret, warm_up>>
       \/ /\ StartRaise
          /\ UNCHANGED <<engines, capturing>>
    /\ UNCHANGED <<running, audio_queue, transcript_queue, threads, stats>>
    /\ UNCHANGED <<ci, nstarts>>
    /\ UNCHANGED <<pc, local_vars, ghost_vars, sink_vars, reader_vars, capture_vars>>

\* what translate("Здравствуйте", "ru") returns to warm_up
\* (ollama_engine.py:240): a result, or None when the request fails
\* (translate catches Timeout, ConnectionError and Exception, lines 199-209)
WarmUpResults == {"ok", "failed"}

\* a warm_up that raises when the request failed
WarmUpRaises_strict(r) == r = "failed"

\* OllamaEngine.warm_up (ollama_engine.py:233-245) after the translate call:
\* it prints "Warm-up complete" or "Warm-up failed" and returns either way
WarmUpRaises(r) == FALSE

\* line 115: self._ollama.warm_up()
StartWarmUp ==
    /\ cpc = "warm_up"
    /\ \E r \in WarmUpResults :
          IF WarmUpRaises(r)
          THEN StartRaise
          ELSE /\ warm_up' = r
               /\ cpc' = "capture_start"
               /\ UNCHANGED ret
    /\ UNCHANGED <<ci, nstarts>>
    /\ UNCHANGED <<pipeline_vars, pc, local_vars, ghost_vars, sink_vars, reader_vars, capture_vars>>

\* lines 118 and 120 swapped: the flag is set before the capture is started
StartCapture_flagFirst ==
    /\ cpc = "capture_start"
    /\ running' = TRUE
    /\ \/ /\ capturing' = TRUE
          /\ cpc' = "set_running"
          /\ UNCHANGED <<ret, warm_up>>
       \/ /\ cpc' = "idle"
          /\ ret' = "start:raised"
          /\ warm_up' = "none"
          /\ UNCHANGED capturing
    /\ UNCHANGED <<audio_queue, transcript_queue, threads, stats, engines>>
    /\ UNCHANGED <<ci, nstarts>>
    /\ UNCHANGED <<pc, local_vars, ghost_vars, sink_vars, reader_vars, capture_vars>>

\* line 118: self._capture.start(); raises RuntimeError when no loopback
\* device is found (capture.py:130-148) or when the stream cannot be opened
StartCapture ==
    /\ cpc = "capture_start"
    /\ \/ /\ capturing' = TRUE
          /\ cpc' = "set_running"
          /\ UNCHANGED <<ret, warm_up>>
       \/ /\ StartRaise
          /\ UNCHANGED capturing
    /\ UNCHANGED <<running, audio_queue, transcript_queue, threads, stats, engines>>
    /\ UNCHANGED <<ci, nstarts>>
    /\ UNCHANGED <<pc, local_vars, ghost_vars, sink_vars, reader_vars, capture_vars>>

\* a start() that creates the threads without setting the flag
StartSetRunning_skipped ==
    /\ cpc = "set_running"
    /\ cpc' = "create_threads"
    /\ UNCHANGED <<ci, nstarts, ret, warm_up>>
    /\ UNCHANGED <<pipeline_vars, pc, local_vars, ghost_vars, sink_vars, reader_vars, capture_vars>>

\* line 120: self._running = True
StartSetRunning ==
    /\ cpc = "set_running"
    /\ running' = TRUE
    /\ cpc' = "create_threads"
    /\ UNCHANGED <<audio_queue, transcript_queue, threads, stats, engines, capturing>>
    /\ UNCHANGED <<ci, nstarts, ret, warm_up>>
    /\ UNCHANGED <<pc, local_vars, ghost_vars, sink_vars, reader_vars, capture_vars>>

\* lines 123-139: [AudioProducer, WhisperWorker, OllamaWorker], new threads
NewThreads(g) == [i \in 1..3 |-> <<g, Roles[i]>>]

\* lines 123-139: self._threads = [...]
StartCreateThreads ==
    /\ cpc = "create_threads"
    /\ nstarts' = nstarts + 1
    /\ threads' = NewThreads(nstarts + 1)
    /\ ci' = 1
    /\ cpc' = "launch"
    /\ UNCHANGED <<running, audio_queue, transcript_queue, stats, engines, capturing>>
    /\ UNCHANGED <<ret, warm_up>>
    /\ UNCHANGED <<pc, local_vars, ghost_vars, sink_vars, reader_vars, capture_vars>>

\* the first statement of each thread's target
FirstPc(w) ==
    CASE w[2] = "producer" -> "p_loop"
      [] w[2] = "whisper"  -> "w_loop"
      [] w[2] = "ollama"   -> "o_loop"

\* lines 141-145: `for t in self._threads: t.start()`, then return
StartLaunch ==
    /\ cpc = "launch"
    /\ pc' = [pc EXCEPT ![threads[ci]] = FirstPc(threads[ci])]
    /\ IF ci < Len(threads)
       THEN /\ ci' = ci + 1
            /\ UNCHANGED <<cpc, ret, warm_up>>
       ELSE /\ ci' = 0
            /\ cpc' = "idle"
            /\ ret' = "start:ok"
            /\ warm_up' = "none"
    /\ UNCHANGED nstarts
    /\ UNCHANGED <<pipeline_vars, local_vars, ghost_vars, sink_vars, reader_vars, capture_vars>>

\* ------------------------------------------------------------------------
\* Pipeline.stop  (pipeline.py:147-168), run by the caller's thread
\* ------------------------------------------------------------------------

\* stop() without its guard
NotRunning_never == FALSE

\* line 149: `if not self._running`
NotRunning == ~running

\* the caller calls stop(); a session begun by a restart is left running
CallStop ==
    /\ cpc = "idle"
    /\ nstarts <= MaxStarts
    /\ cpc' = "stop"
    /\ ret' = "none"
    /\ UNCHANGED <<ci, nstarts, warm_up>>
    /\ UNCHANGED <<pipeline_vars, pc, local_vars, ghost_vars, sink_vars, reader_vars, capture_vars>>

\* lines 149-152: return when not running; otherwise clear the flag
StopCheck ==
    /\ cpc = "stop"
    /\ IF NotRunning
       THEN /\ cpc' = "idle"
            /\ ret' = "stop:not_running"
            /\ UNCHANGED running
       ELSE /\ running' = FALSE
            /\ cpc' = "stop_capture"
            /\ UNCHANGED ret
    /\ UNCHANGED <<audio_queue, transcript_queue, threads, stats, engines, capturing>>
    /\ UNCHANGED <<ci, nstarts, warm_up>>
    /\ UNCHANGED <<pc, local_vars, ghost_vars, sink_vars, reader_vars, capture_vars>>

\* a stop() that goes on to the drains without stopping the capture
StopCapture_skipped ==
    /\ cpc = "stop_capture"
    /\ cpc' = "drain_audio"
    /\ UNCHANGED <<ci, nstarts, ret, warm_up>>
    /\ UNCHANGED <<pipeline_vars, pc, local_vars, ghost_vars, sink_vars, reader_vars, capture_vars>>

\* lines 155-157: `if self._capture`: self._capture.stop(); .close()
StopCapture ==
    /\ cpc = "stop_capture"
    /\ capturing' = IF engines.capture # 0 THEN FALSE ELSE capturing
    /\ cpc' = "drain_audio"
    /\ UNCHANGED <<running, audio_queue, transcript_queue, threads, stats, engines>>
    /\ UNCHANGED <<ci, nstarts, ret, warm_up>>
    /\ UNCHANGED <<pc, local_vars, ghost_vars, sink_vars, reader_vars, capture_vars>>

\* line 160: self._drain_queue(self._audio_queue); one get_nowait per step
\* (lines 271-277), ending at the first queue.Empty
StopDrainAudio ==
    /\ cpc = "drain_audio"
    /\ IF QueueEmpty(audio_queue)
       THEN /\ cpc' = "drain_transcript"
            /\ UNCHANGED <<audio_queue, ghost_vars>>
       ELSE /\ audio_queue' = QueueGet(audio_queue)
            /\ Disturb("aq")
            /\ UNCHANGED cpc
    /\ UNCHANGED <<running, transcript_queue, threads, stats, engines, capturing>>
    /\ UNCHANGED <<ci, nstarts, ret, warm_up>>
    /\ UNCHANGED <<pc, local_vars, sink_vars, reader_vars, capture_vars>>

\* line 161: self._drain_queue(self._transcript_queue)
StopDrainTranscript ==
    /\ cpc = "drain_transcript"
    /\ IF QueueEmpty(transcript_queue)
       THEN /\ cpc' = "join"
            /\ ci' = 1
            /\ UNCHANGED <<transcript_queue, ghost_vars>>
       ELSE /\ transcript_queue' = QueueGet(transcript_queue)
            /\ Disturb("tq")
            /\ UNCHANGED <<cpc, ci>>
    /\ UNCHANGED <<running, audio_queue, threads, stats, engines, capturing>>
    /\ UNCHANGED <<nstarts, ret, warm_up>>
    /\ UNCHANGED <<pc, local_vars, sink_vars, reader_vars, capture_vars>>

\* the thread's target has returned or died of an exception
Ended(w) == pc[w] \in {"done", "crashed"}

\* a join() without a timeout: it waits for the thread to end
StopJoin_untimed ==
    /\ cpc = "join"
    /\ Ended(threads[ci])
    /\ IF ci < Len(threads)
       THEN ci' = ci + 1 /\ UNCHANGED cpc
       ELSE ci' = 0 /\ cpc' = "stop_finish"
    /\ UNCHANGED <<nstarts, ret, warm_up>>
    /\ UNCHANGED <<pipeline_vars, pc, local_vars, ghost_vars, sink_vars, reader_vars, capture_vars>>

\* lines 164-165: t.join(timeout=5) returns when the thread has ended, or
\* after 5 seconds with the thread still alive
StopJoin ==
    /\ cpc = "join"
    /\ \/ Ended(threads[ci])
       \/ ~Ended(threads[ci])
    /\ IF ci < Len(threads)
       THEN ci' = ci + 1 /\ UNCHANGED cpc
       ELSE ci' = 0 /\ cpc' = "stop_finish"
    /\ UNCHANGED <<nstarts, ret, warm_up>>
    /\ UNCHANGED <<pipeline_vars, pc, local_vars, ghost_vars, sink_vars, reader_vars, capture_vars>>

\* lines 167-168: self._threads = []; self._print_stats(); return
StopFinish ==
    /\ cpc = "stop_finish"
    /\ threads' = <<>>
    /\ cpc' = "idle"
    /\ ret' = "stop:ok"
    /\ UNCHANGED <<running, audio_queue, transcript_queue, stats, engines, capturing>>
    /\ UNCHANGED <<ci, nstarts, warm_up>>
    /\ UNCHANGED <<pc, local_vars, ghost_vars, sink_vars, reader_vars, capture_vars>>

\* the caller's thread inside start()
Start ==
    \/ CallStart \/ StartCheck \/ StartInitWhisper \/ StartInitOllama
    \/ StartInitCapture \/ StartWarmUp \/ StartCapture \/ StartSetRunning
    \/ StartCreateThreads \/ StartLaunch

\* the caller's thread inside stop()
Stop ==
    \/ CallStop \/ StopCheck \/ StopCapture \/ StopDrainAudio
    \/ StopDrainTranscript \/ StopJoin \/ StopFinish

\* ------------------------------------------------------------------------
\* Pipeline._audio_producer  (pipeline.py:170-203)
\* ------------------------------------------------------------------------

\* workers between a failed put_nowait and the end of their push
MidPushAudio == {v \in Workers : pc[v] \in {"p_evict", "p_reput"}}

MidPushTranscript == {v \in Workers : pc[v] \in {"w_evict", "w_reput"}}

\* line 175: `while self._running`
P_Loop(w) ==
    /\ pc[w] = "p_loop"
    /\ pc' = [pc EXCEPT ![w] = IF running THEN "p_sleep" ELSE "done"]
    /\ audio' = [audio EXCEPT ![w] = NoAudio]
    /\ UNCHANGED <<pipeline_vars, caller_vars, segments, seg, result, nsegs, ghost_vars, sink_vars, reader_vars, capture_vars>>

\* the silence test the wrong way round
IsSilent_inverted(rms) == rms > SilenceThreshold

\* line 187: `if rms < 0.001`
IsSilent(rms) == rms < SilenceThreshold

\* what get_audio_chunk(clear=True) can return: None (empty buffer) or the
\* buffered samples, of some energy
GrabOutcomes == {NoAudio} \cup {[id |-> 0, n |-> 1, rms |-> r] : r \in RmsLevels}

\* lines 176-188: sleep; leave when stopped; read the capture buffer;
\* `continue` on no audio and on silence.  MaxChunks bounds the non-silent
\* chunks of a behaviour
P_Grab(w) ==
    /\ pc[w] = "p_sleep"
    /\ IF ~running
       THEN /\ pc' = [pc EXCEPT ![w] = "done"]
            /\ UNCHANGED audio
       ELSE \E a \in GrabOutcomes :
              /\ audio' = [audio EXCEPT ![w] = a]
              /\ IF a.n = 0 \/ IsSilent(a.rms)
                 THEN pc' = [pc EXCEPT ![w] = "p_loop"]
                 ELSE /\ stats.chunks_captured
                           + Cardinality({v \in Workers : pc[v] = "p_count"}) < MaxChunks
                      /\ pc' = [pc EXCEPT ![w] = "p_count"]
    /\ UNCHANGED <<pipeline_vars, caller_vars, segments, seg, result, nsegs, ghost_vars, sink_vars, reader_vars, capture_vars>>

\* a producer that does not count the chunk it captured
P_Count_uncounted(w) ==
    /\ pc[w] = "p_count"
    /\ audio' = [audio EXCEPT ![w].id = 1]
    /\ pc' = [pc EXCEPT ![w] = "p_put"]
    /\ UNCHANGED <<pipeline_vars, caller_vars, segments, seg, result, nsegs, ghost_vars, sink_vars, reader_vars, capture_vars>>

\* lines 190-191: with self._stats_lock: chunks_captured += 1
\* (the count names the chunk from here on)
P_Count(w) ==
    /\ pc[w] = "p_count"
    /\ stats' = [stats EXCEPT !.chunks_captured = @ + 1]
    /\ audio' = [audio EXCEPT ![w].id = stats.chunks_captured + 1]
    /\ pc' = [pc EXCEPT ![w] = "p_put"]
    /\ UNCHANGED <<running, audio_queue, transcript_queue, threads, engines, capturing>>
    /\ UNCHANGED <<caller_vars, segments, seg, result, nsegs, ghost_vars, sink_vars, reader_vars, capture_vars>>

\* a push with put() instead of put_nowait(): it waits for a free slot
P_Put_blocking(w) ==
    /\ pc[w] = "p_put"
    /\ ~QueueFull(audio_queue)
    /\ audio_queue' = QueuePut(audio_queue, audio[w])
    /\ pc' = [pc EXCEPT ![w] = "p_loop"]
    /\ audio' = [audio EXCEPT ![w] = NoAudio]
    /\ IF MidPushAudio # {} THEN Disturb("aq") ELSE Completed("aq", audio[w].id)
    /\ UNCHANGED <<running, transcript_queue, threads, stats, engines, capturing>>
    /\ UNCHANGED <<caller_vars, segments, seg, result, nsegs, sink_vars, reader_vars, capture_vars>>

\* line 195: self._audio_queue.put_nowait(audio); queue.Full goes to line 196
P_Put(w) ==
    /\ pc[w] = "p_put"
    /\ IF QueueFull(audio_queue)
       THEN /\ pc' = [pc EXCEPT ![w] = "p_evict"]
            /\ UNCHANGED <<audio_queue, audio>>
            /\ IF MidPushAudio # {} THEN Disturb("aq") ELSE UNCHANGED ghost_vars
       ELSE /\ audio_queue' = QueuePut(audio_queue, audio[w])
            /\ pc' = [pc EXCEPT ![w] = "p_loop"]
            /\ audio' = [audio EXCEPT ![w] = NoAudio]
            /\ IF MidPushAudio # {} THEN Disturb("aq") ELSE Completed("aq", audio[w].id)
    /\ UNCHANGED <<running, transcript_queue, threads, stats, engines, capturing>>
    /\ UNCHANGED <<caller_vars, segments, seg, result, nsegs, sink_vars, reader_vars, capture_vars>>

\* line 198: self._audio_queue.get_nowait()  # Drop oldest
\* queue.Empty goes to lines 202-203: pass
P_Evict(w) ==
    /\ pc[w] = "p_evict"
    /\ IF QueueEmpty(audio_queue)
       THEN /\ pc' = [pc EXCEPT ![w] = "p_loop"]
            /\ Completed("aq", audio[w].id)
            /\ UNCHANGED audio_queue
       ELSE /\ audio_queue' = QueueGet(audio_queue)
            /\ pc' = [pc EXCEPT ![w] = "p_reput"]
            /\ UNCHANGED ghost_vars
    /\ UNCHANGED <<running, transcript_queue, threads, stats, engines, capturing>>
    /\ UNCHANGED <<caller_vars, local_vars, sink_vars, reader_vars, capture_vars>>

\* line 199: self._audio_queue.put_nowait(audio); a queue.Full here is not
\* caught by `except queue.Empty` and ends the thread
P_Reput(w) ==
    /\ pc[w] = "p_reput"
    /\ IF QueueFull(audio_queue)
       THEN /\ pc' = [pc EXCEPT ![w] = "crashed"]
            /\ UNCHANGED audio_queue
       ELSE /\ audio_queue' = QueuePut(audio_queue, audio[w])
            /\ pc' = [pc EXCEPT ![w] = "p_drop"]
    /\ Completed("aq", audio[w].id)
    /\ audio' = [audio EXCEPT ![w] = NoAudio]
    /\ UNCHANGED <<running, transcript_queue, threads, stats, engines, capturing>>
    /\ UNCHANGED <<caller_vars, segments, seg, result, nsegs, sink_vars, reader_vars, capture_vars>>

\* an eviction that is not counted
P_Drop_uncounted(w) ==
    /\ pc[w] = "p_drop"
    /\ pc' = [pc EXCEPT ![w] = "p_loop"]
    /\ UNCHANGED <<pipeline_vars, caller_vars, local_vars, ghost_vars, sink_vars, reader_vars, capture_vars>>

\* lines 200-201: with self._stats_lock: chunks_dropped += 1
P_Drop(w) ==
    /\ pc[w] = "p_drop"
    /\ stats' = [stats EXCEPT !.chunks_dropped = @ + 1]
    /\ pc' = [pc EXCEPT ![w] = "p_loop"]
    /\ UNCHANGED <<running, audio_queue, transcript_queue, threads, engines, capturing>>
    /\ UNCHANGED <<caller_vars, local_vars, ghost_vars, sink_vars, reader_vars, capture_vars>>

Producer(w) ==
    \/ P_Loop(w) \/ P_Grab(w) \/ P_Count(w) \/ P_Put(w)
    \/ P_Evict(w) \/ P_Reput(w) \/ P_Drop(w)

\* ------------------------------------------------------------------------
\* Pipeline._whisper_worker  (pipeline.py:205-231)
\* ------------------------------------------------------------------------

\* line 210: `while self._running`
W_Loop(w) ==
    /\ pc[w] = "w_loop"
    /\ pc' = [pc EXCEPT ![w] = IF running THEN "w_get" ELSE "done"]
    /\ UNCHANGED <<pipeline_vars, caller_vars, local_vars, ghost_vars, sink_vars, reader_vars, capture_vars>>

\* a get() without a timeout: it waits for an item
W_Get_blocking(w) ==
    /\ pc[w] = "w_get"
    /\ ~QueueEmpty(audio_queue)
    /\ audio' = [audio EXCEPT ![w] = Head(audio_queue)]
    /\ audio_queue' = QueueGet(audio_queue)
    /\ Disturb("aq")
    /\ pc' = [pc EXCEPT ![w] = "w_transcribe"]
    /\ UNCHANGED <<running, transcript_queue, threads, stats, engines, capturing>>
    /\ UNCHANGED <<caller_vars, segments, seg, result, nsegs, sink_vars, reader_vars, capture_vars>>

\* a recognition worker that waits for the translation stage to be idle
\* before it takes a chunk
W_Get_lockstep(w) ==
    /\ pc[w] = "w_get"
    /\ \A v \in Workers : pc[v] \notin {"o_translate", "o_count", "o_deliver"}
    /\ IF QueueEmpty(audio_queue)
       THEN /\ pc' = [pc EXCEPT ![w] = "w_loop"]
            /\ UNCHANGED <<audio_queue, audio, ghost_vars>>
       ELSE /\ audio' = [audio EXCEPT ![w] = Head(audio_queue)]
            /\ audio_queue' = QueueGet(audio_queue)
            /\ Disturb("aq")
            /\ pc' = [pc EXCEPT ![w] = "w_transcribe"]
    /\ UNCHANGED <<running, transcript_queue, threads, stats, engines, capturing>>
    /\ UNCHANGED <<caller_vars, segments, seg, result, nsegs, sink_vars, reader_vars, capture_vars>>

\* lines 211-214: audio = self._audio_queue.get(timeout=1); on queue.Empty
\* (nothing arrived within the timeout) `continue`
W_Get(w) ==
    /\ pc[w] = "w_get"
    /\ IF QueueEmpty(audio_queue)
       THEN /\ pc' = [pc EXCEPT ![w] = "w_loop"]
            /\ UNCHANGED <<audio_queue, audio, ghost_vars>>
       ELSE /\ audio' = [audio EXCEPT ![w] = Head(audio_queue)]
            /\ audio_queue' = QueueGet(audio_queue)
            /\ Disturb("aq")
            /\ pc' = [pc EXCEPT ![w] = "w_transcribe"]
    /\ UNCHANGED <<running, transcript_queue, threads, stats, engines, capturing>>
    /\ UNCHANGED <<caller_vars, segments, seg, result, nsegs, sink_vars, reader_vars, capture_vars>>

\* the list WhisperEngine.transcribe returns (whisper_engine.py:146-173):
\* k segments, all tagged info.language, named in the order produced
NewSegments(first, k, lang) ==
    [i \in 1..k |-> [id |-> first + i, language |-> lang]]

\* where an exception of the collaborator takes the worker: line 216 is in
\* no try block, so it leaves _whisper_worker and ends the thread
OnTranscribeError == "crashed"

\* line 216: segments = self._whisper.transcribe(audio); MaxTotalSegments
\* bounds the segments of a behaviour (an empty list is always possible)
W_Transcribe(w) ==
    /\ pc[w] = "w_transcribe"
    /\ \/ /\ pc' = [pc EXCEPT ![w] = OnTranscribeError]
          /\ UNCHANGED <<segments, nsegs>>
       \/ \E k \in 0..MaxSegments, lang \in Langs :
             /\ nsegs + k <= MaxTotalSegments
             /\ segments' = [segments EXCEPT ![w] = NewSegments(nsegs, k, lang)]
             /\ nsegs' = nsegs + k
             /\ pc' = [pc EXCEPT ![w] = "w_count"]
    /\ audio' = [audio EXCEPT ![w] = NoAudio]
    /\ UNCHANGED <<pipeline_vars, caller_vars, seg, result, ghost_vars, sink_vars, reader_vars, capture_vars>>

\* a worker that drops the segments it was given
AfterSegment_skipsPush(rest) == "w_loop"

\* where the whisper worker goes once `rest` is what is left to iterate
AfterSegment(rest) == IF rest = <<>> THEN "w_loop" ELSE "w_put"

\* lines 218-221: with self._stats_lock: chunks_transcribed += 1
\* then line 223: `for seg in segments`
W_Count(w) ==
    /\ pc[w] = "w_count"
    /\ stats' = [stats EXCEPT !.chunks_transcribed = @ + 1]
    /\ pc' = [pc EXCEPT ![w] = AfterSegment(segments[w])]
    /\ UNCHANGED <<running, audio_queue, transcript_queue, threads, engines, capturing>>
    /\ UNCHANGED <<caller_vars, local_vars, ghost_vars, sink_vars, reader_vars, capture_vars>>

\* line 225: self._transcript_queue.put_nowait(seg)
W_Put(w) ==
    /\ pc[w] = "w_put"
    /\ IF QueueFull(transcript_queue)
       THEN /\ pc' = [pc EXCEPT ![w] = "w_evict"]
            /\ UNCHANGED <<transcript_queue, segments>>
            /\ IF MidPushTranscript # {} THEN Disturb("tq") ELSE UNCHANGED ghost_vars
       ELSE /\ transcript_queue' = QueuePut(transcript_queue, Head(segments[w]))
            /\ segments' = [segments EXCEPT ![w] = Tail(@)]
            /\ pc' = [pc EXCEPT ![w] = AfterSegment(Tail(segments[w]))]
            /\ IF MidPushTranscript # {}
               THEN Disturb("tq")
               ELSE Completed("tq", Head(segments[w]).id)
    /\ UNCHANGED <<running, audio_queue, threads, stats, engines, capturing>>
    /\ UNCHANGED <<caller_vars, audio, seg, result, nsegs, sink_vars, reader_vars, capture_vars>>

\* line 228: self._transcript_queue.get_nowait(); queue.Empty: pass
W_Evict(w) ==
    /\ pc[w] = "w_evict"
    /\ IF QueueEmpty(transcript_queue)
       THEN /\ Completed("tq", Head(segments[w]).id)
            /\ segments' = [segments EXCEPT ![w] = Tail(@)]
            /\ pc' = [pc EXCEPT ![w] = AfterSegment(Tail(segments[w]))]
            /\ UNCHANGED transcript_queue
       ELSE /\ transcript_queue' = QueueGet(transcript_queue)
            /\ pc' = [pc EXCEPT ![w] = "w_reput"]
            /\ UNCHANGED <<segments, ghost_vars>>
    /\ UNCHANGED <<running, audio_queue, threads, stats, engines, capturing>>
    /\ UNCHANGED <<caller_vars, audio, seg, result, nsegs, sink_vars, reader_vars, capture_vars>>

\* line 229: self._transcript_queue.put_nowait(seg), and on to the next
\* segment: no counter is touched.  A queue.Full here is not caught and
\* ends the thread
W_Reput(w) ==
    /\ pc[w] = "w_reput"
    /\ IF QueueFull(transcript_queue)
       THEN /\ pc' = [pc EXCEPT ![w] = "crashed"]
            /\ segments' = [segments EXCEPT ![w] = <<>>]
            /\ UNCHANGED transcript_queue
       ELSE /\ transcript_queue' = QueuePut(transcript_queue, Head(segments[w]))
            /\ segments' = [segments EXCEPT ![w] = Tail(@)]
            /\ pc' = [pc EXCEPT ![w] = AfterSegment(Tail(segments[w]))]
    /\ Completed("tq", Head(segments[w]).id)
    /\ UNCHANGED <<running, audio_queue, threads, stats, engines, capturing>>
    /\ UNCHANGED <<caller_vars, audio, seg, result, nsegs, sink_vars, reader_vars, capture_vars>>

Whisper(w) ==
    \/ W_Loop(w) \/ W_Get(w) \/ W_Transcribe(w) \/ W_Count(w)
    \/ W_Put(w) \/ W_Evict(w) \/ W_Reput(w)

\* ------------------------------------------------------------------------
\* Pipeline._ollama_worker  (pipeline.py:233-257)
\* ------------------------------------------------------------------------

\* line 238: `while self._running`
O_Loop(w) ==
    /\ pc[w] = "o_loop"
    /\ pc' = [pc EXCEPT ![w] = IF running THEN "o_get" ELSE "done"]
    /\ UNCHANGED <<pipeline_vars, caller_vars, local_vars, ghost_vars, sink_vars, reader_vars, capture_vars>>

\* a translation worker that takes segments only from a full queue
O_Get_whenFull(w) ==
    /\ pc[w] = "o_get"
    /\ QueueFull(transcript_queue)
    /\ seg' = [seg EXCEPT ![w] = Head(transcript_queue)]
    /\ transcript_queue' = QueueGet(transcript_queue)
    /\ Disturb("tq")
    /\ pc' = [pc EXCEPT ![w] = "o_translate"]
    /\ UNCHANGED <<running, audio_queue, threads, stats, engines, capturing>>
    /\ UNCHANGED <<caller_vars, audio, segments, result, nsegs, sink_vars, reader_vars, capture_vars>>

\* lines 239-242: seg = self._transcript_queue.get(timeout=1)
O_Get(w) ==
    /\ pc[w] = "o_get"
    /\ IF QueueEmpty(transcript_queue)
       THEN /\ pc' = [pc EXCEPT ![w] = "o_loop"]
            /\ UNCHANGED <<transcript_queue, seg, ghost_vars>>
       ELSE /\ seg' = [seg EXCEPT ![w] = Head(transcript_queue)]
            /\ transcript_queue' = QueueGet(transcript_queue)
            /\ Disturb("tq")
            /\ pc' = [pc EXCEPT ![w] = "o_translate"]
    /\ UNCHANGED <<running, audio_queue, threads, stats, engines, capturing>>
    /\ UNCHANGED <<caller_vars, audio, segments, result, nsegs, sink_vars, reader_vars, capture_vars>>

\* ollama_engine.py:145-153: the two source languages translate() knows
Recognized(lang) == lang \in {"ru", "en"}

\* how the HTTP request of translate() can end (ollama_engine.py:172-209):
\* a usable response; requests.Timeout; requests.ConnectionError or any other
\* exception (HTTP error status, malformed JSON, missing key)
RequestOutcomes == {"ok", "timeout", "error"}

\* the requests translate() makes for segment s: none at all for a language
\* it does not recognize (it returns at line 153, before the request)
RequestsOf(s) == IF Recognized(s.language) THEN RequestOutcomes ELSE {"none"}

\* a translate() that lets a failed request's exception out
TranslateRaises_onFailure(o) == o \in {"timeout", "error"}

\* OllamaEngine.translate raises: never. The three except clauses
\* (ollama_engine.py:199-209) catch every exception of the request
TranslateRaises(o) == FALSE

\* a translate() that answers an unrecognized language with a result
Translate_anyLanguage(s, o) ==
    IF o \in {"timeout", "error"}
    THEN NoResult
    ELSE [present |-> TRUE, source_text |-> s.id,
          target_language |-> IF s.language = "ru" THEN "en" ELSE "ru"]

\* a translate() that answers from the request's reply whether or not the
\* request succeeded
Translate_ignoresFailure(s, o) ==
    IF ~Recognized(s.language)
    THEN NoResult
    ELSE [present |-> TRUE, source_text |-> s.id,
          target_language |-> IF s.language = "ru" THEN "en" ELSE "ru"]

\* what OllamaEngine.translate(seg.text, seg.language) returns
\* (ollama_engine.py:124-209) when the request ends with o: None for a
\* language that is neither "ru" nor "en" (lines 151-153) and when the request
\* fails (lines 199-209); otherwise the result for that text, towards the
\* other language (lines 190-197).  The text of a segment is never empty
\* (whisper_engine.py:149-151), so line 139 does not apply
Translate(s, o) ==
    IF ~Recognized(s.language) \/ o # "ok"
    THEN NoResult
    ELSE [present |-> TRUE, source_text |-> s.id,
          target_language |-> IF s.language = "ru" THEN "en" ELSE "ru"]

\* every value translate() can return for segment s
TranslateOutcomes(s) == {Translate(s, o) : o \in RequestsOf(s)}

\* line 245: result = self._ollama.translate(seg.text, seg.language)
O_Translate(w) ==
    /\ pc[w] = "o_translate"
    /\ \E o \in RequestsOf(seg[w]) :
          /\ request' = [request EXCEPT ![w] = o]
          /\ IF TranslateRaises(o)
             THEN /\ pc' = [pc EXCEPT ![w] = "crashed"]
                  /\ UNCHANGED result
             ELSE /\ result' = [result EXCEPT ![w] = Translate(seg[w], o)]
                  /\ pc' = [pc EXCEPT ![w] = "o_count"]
    /\ UNCHANGED <<pipeline_vars, caller_vars, audio, segments, seg, nsegs, ghost_vars>>
    /\ UNCHANGED <<last_delivered, ndelivered, reader_vars, capture_vars>>

\* a count of the translations that produced a result
O_Count_successes(w) ==
    /\ pc[w] = "o_count"
    /\ stats' = [stats EXCEPT !.chunks_translated = IF result[w].present THEN @ + 1 ELSE @]
    /\ pc' = [pc EXCEPT ![w] = "o_deliver"]
    /\ UNCHANGED <<running, audio_queue, transcript_queue, threads, engines, capturing>>
    /\ UNCHANGED <<caller_vars, local_vars, ghost_vars, sink_vars, reader_vars, capture_vars>>

\* lines 247-250: with self._stats_lock: chunks_translated += 1
\* (only the time is added under `if result`)
O_Count(w) ==
    /\ pc[w] = "o_count"
    /\ stats' = [stats EXCEPT !.chunks_translated = @ + 1]
    /\ pc' = [pc EXCEPT ![w] = "o_deliver"]
    /\ UNCHANGED <<running, audio_queue, transcript_queue, threads, engines, capturing>>
    /\ UNCHANGED <<caller_vars, local_vars, ghost_vars, sink_vars, reader_vars, capture_vars>>

\* lines 253-257: self._on_result(PipelineItem(seg, result)): the sink gets
\* the item; an exception of the callback is not caught and ends the thread
O_Deliver(w) ==
    /\ pc[w] = "o_deliver"
    /\ \/ pc' = [pc EXCEPT ![w] = "o_loop"]
       \/ pc' = [pc EXCEPT ![w] = "crashed"]
    /\ last_delivered' = seg[w].id
    /\ ndelivered' = ndelivered + 1
    /\ seg' = [seg EXCEPT ![w] = NoSeg]
    /\ result' = [result EXCEPT ![w] = NoResult]
    /\ request' = [request EXCEPT ![w] = "none"]
    /\ UNCHANGED <<pipeline_vars, caller_vars, audio, segments, nsegs, ghost_vars, reader_vars, capture_vars>>

Ollama(w) ==
    \/ O_Loop(w) \/ O_Get(w) \/ O_Translate(w) \/ O_Count(w) \/ O_Deliver(w)

\* ------------------------------------------------------------------------
\* Pipeline.stats  (pipeline.py:307-310), read by any thread
\* ------------------------------------------------------------------------

\* a thread reads pipeline.stats
R_Call ==
    /\ rpc = "idle"
    /\ rpc' = "acquire"
    /\ snapshot' = NoSnapshot
    /\ UNCHANGED <<stats_lock, ri>>
    /\ UNCHANGED <<pipeline_vars, caller_vars, pc, local_vars, ghost_vars, sink_vars, capture_vars>>

\* a stats property that does not take the lock
R_Acquire_unlocked ==
    /\ rpc = "acquire"
    /\ rpc' = "copy"
    /\ ri' = 1
    /\ UNCHANGED <<stats_lock, snapshot>>
    /\ UNCHANGED <<pipeline_vars, caller_vars, pc, local_vars, ghost_vars, sink_vars, capture_vars>>

\* line 309: `with self._stats_lock`: waits until the lock is free
R_Acquire ==
    /\ rpc = "acquire"
    /\ stats_lock = "free"
    /\ stats_lock' = "reader"
    /\ rpc' = "copy"
    /\ ri' = 1
    /\ UNCHANGED snapshot
    /\ UNCHANGED <<pipeline_vars, caller_vars, pc, local_vars, ghost_vars, sink_vars, capture_vars>>

\* line 310: self._stats.copy(), one entry of the dict per step
R_Copy ==
    /\ rpc = "copy"
    /\ snapshot' = [snapshot EXCEPT ![Fields[ri]] = stats[Fields[ri]]]
    /\ IF ri < Len(Fields)
       THEN ri' = ri + 1 /\ UNCHANGED rpc
       ELSE ri' = 0 /\ rpc' = "release"
    /\ UNCHANGED stats_lock
    /\ UNCHANGED <<pipeline_vars, caller_vars, pc, local_vars, ghost_vars, sink_vars, capture_vars>>

\* lines 309-310: the `with` block is left and the copy is returned
R_Return ==
    /\ rpc = "release"
    /\ stats_lock' = "free"
    /\ rpc' = "returned"
    /\ UNCHANGED <<ri, snapshot>>
    /\ UNCHANGED <<pipeline_vars, caller_vars, pc, local_vars, ghost_vars, sink_vars, capture_vars>>

\* line 310: what the property returns: a copy of the dict
StatsReturns == "copy"

\* the reader writes into the dict it was given (here: -1 as the captured
\* count); the write lands in Pipeline._stats only if that dict was returned
R_Modify ==
    /\ rpc = "returned"
    /\ rpc' = "idle"
    /\ IF StatsReturns = "copy"
       THEN /\ snapshot' = [snapshot EXCEPT !.chunks_captured = -1]
            /\ UNCHANGED stats
       ELSE /\ stats' = [stats EXCEPT !.chunks_captured = -1]
            /\ UNCHANGED snapshot
    /\ UNCHANGED <<stats_lock, ri>>
    /\ UNCHANGED <<running, audio_queue, transcript_queue, threads, engines, capturing>>
    /\ UNCHANGED <<caller_vars, pc, local_vars, ghost_vars, sink_vars, capture_vars>>

Reader == R_Call \/ R_Acquire \/ R_Copy \/ R_Return \/ R_Modify

\* ------------------------------------------------------------------------
\* AudioCapture._audio_callback  (capture.py:189-195), run by the audio
\* thread, and AudioCapture.get_audio_chunk  (capture.py:235-269)
\* ------------------------------------------------------------------------

\* the stream calls _audio_callback with a block; MaxBlocks bounds the blocks
K_Call ==
    /\ kpc = "idle"
    /\ capturing
    /\ nblocks < MaxBlocks
    /\ kpc' = "test"
    /\ UNCHANGED <<audio_buffer, capture_lock, gpc, raw, nblocks, returned>>
    /\ UNCHANGED <<pipeline_vars, caller_vars, pc, local_vars, ghost_vars, sink_vars, reader_vars>>

\* line 191: `if self._is_capturing`
K_Test ==
    /\ kpc = "test"
    /\ kpc' = IF capturing THEN "lock" ELSE "idle"
    /\ UNCHANGED <<audio_buffer, capture_lock, gpc, raw, nblocks, returned>>
    /\ UNCHANGED <<pipeline_vars, caller_vars, pc, local_vars, ghost_vars, sink_vars, reader_vars>>

\* line 193: `with self._lock`: waits until the lock is free
K_Lock ==
    /\ kpc = "lock"
    /\ capture_lock = "free"
    /\ capture_lock' = "callback"
    /\ kpc' = "append"
    /\ UNCHANGED <<audio_buffer, gpc, raw, nblocks, returned>>
    /\ UNCHANGED <<pipeline_vars, caller_vars, pc, local_vars, ghost_vars, sink_vars, reader_vars>>

\* line 194: self._audio_buffer.append(audio_data.copy()), and the lock is
\* released
K_Append ==
    /\ kpc = "append"
    /\ audio_buffer' = Append(audio_buffer, nblocks + 1)
    /\ nblocks' = nblocks + 1
    /\ capture_lock' = IF capture_lock = "callback" THEN "free" ELSE capture_lock
    /\ kpc' = "idle"
    /\ UNCHANGED <<gpc, raw, returned>>
    /\ UNCHANGED <<pipeline_vars, caller_vars, pc, local_vars, ghost_vars, sink_vars, reader_vars>>

Callback == K_Call \/ K_Test \/ K_Lock \/ K_Append

\* a thread calls get_audio_chunk(clear=True) (the producer, pipeline.py:182)
G_Call ==
    /\ gpc = "idle"
    /\ capturing
    /\ gpc' = "lock"
    /\ raw' = <<>>
    /\ UNCHANGED <<audio_buffer, capture_lock, kpc, nblocks, returned>>
    /\ UNCHANGED <<pipeline_vars, caller_vars, pc, local_vars, ghost_vars, sink_vars, reader_vars>>

\* a get_audio_chunk that does not take the lock
G_Lock_unlocked ==
    /\ gpc = "lock"
    /\ gpc' = "test"
    /\ UNCHANGED <<audio_buffer, capture_lock, kpc, raw, nblocks, returned>>
    /\ UNCHANGED <<pipeline_vars, caller_vars, pc, local_vars, ghost_vars, sink_vars, reader_vars>>

\* line 247: `with self._lock`: waits until the lock is free
G_Lock ==
    /\ gpc = "lock"
    /\ capture_lock = "free"
    /\ capture_lock' = "getter"
    /\ gpc' = "test"
    /\ UNCHANGED <<audio_buffer, kpc, raw, nblocks, returned>>
    /\ UNCHANGED <<pipeline_vars, caller_vars, pc, local_vars, ghost_vars, sink_vars, reader_vars>>

\* lines 248-250: an empty buffer returns None (the lock is released);
\* otherwise raw = np.concatenate(self._audio_buffer)
G_Concat ==
    /\ gpc = "test"
    /\ IF audio_buffer = <<>>
       THEN /\ gpc' = "idle"
            /\ capture_lock' = IF capture_lock = "getter" THEN "free" ELSE capture_lock
            /\ UNCHANGED raw
       ELSE /\ raw' = audio_buffer
            /\ gpc' = "clear"
            /\ UNCHANGED capture_lock
    /\ UNCHANGED <<audio_buffer, kpc, nblocks, returned>>
    /\ UNCHANGED <<pipeline_vars, caller_vars, pc, local_vars, ghost_vars, sink_vars, reader_vars>>

\* lines 251-252: `if clear: self._audio_buffer = []`, and the lock is
\* released
G_Clear ==
    /\ gpc = "clear"
    /\ audio_buffer' = <<>>
    /\ capture_lock' = IF capture_lock = "getter" THEN "free" ELSE capture_lock
    /\ gpc' = "convert"
    /\ UNCHANGED <<kpc, raw, nblocks, returned>>
    /\ UNCHANGED <<pipeline_vars, caller_vars, pc, local_vars, ghost_vars, sink_vars, reader_vars>>

\* lines 254-269: the samples are mixed down and resampled, outside the
\* lock, and the chunk is returned
G_Return ==
    /\ gpc = "convert"
    /\ returned' = returned \o raw
    /\ raw' = <<>>
    /\ gpc' = "idle"
    /\ UNCHANGED <<audio_buffer, capture_lock, kpc, nblocks>>
    /\ UNCHANGED <<pipeline_vars, caller_vars, pc, local_vars, ghost_vars, sink_vars, reader_vars>>

GetChunk == G_Call \/ G_Lock \/ G_Concat \/ G_Clear \/ G_Return

\* ------------------------------------------------------------------------
\* Specifications
\* ------------------------------------------------------------------------

\* The whole lifecycle: the caller starts, stops and restarts the pipeline
\* at any moment while the workers run.
Next ==
    \/ Start
    \/ Stop
    \/ \E w \in Workers : Producer(w) \/ Whisper(w) \/ Ollama(w)

Spec == Init /\ [][Next]_vars

\* Steady-state operation: the caller starts the pipeline (and may call
\* start() again) but does not stop it.
NextFlow ==
    \/ Start
    \/ \E w \in Workers : Producer(w) \/ Whisper(w) \/ Ollama(w)

SpecFlow == Init /\ [][NextFlow]_vars

\* one step of worker thread w
Worker(w) == Producer(w) \/ Whisper(w) \/ Ollama(w)

\* Stop and restart: the caller may call start() again after a stop() has
\* returned, while workers of the earlier start() whose join timed out are
\* still alive.  Behaviours are followed while at most RestartChunks chunks
\* have been captured.
NextRestart ==
    \/ Start
    \/ CallRestart
    \/ Stop
    \/ \E w \in Workers : Worker(w) /\ stats'.chunks_captured <= RestartChunks

SpecRestart == Init /\ [][NextRestart]_vars

\* Steady-state operation with a thread that reads the stats property: a
\* worker enters a `with self._stats_lock` block (every statement that
\* changes a counter is inside one) only while the lock is free.  Behaviours
\* are followed while at most StatsChunks chunks have been captured.
NextStats ==
    \/ Start
    \/ Reader
    \/ \E w \in Workers :
          /\ Worker(w)
          /\ stats'.chunks_captured <= StatsChunks
          /\ stats' # stats => stats_lock = "free"

SpecStats == Init /\ [][NextStats]_vars

\* The capture buffer: start() constructs the AudioCapture (its buffer is
\* empty, capture.py:62) and starts it; from then on the audio thread appends
\* blocks while a thread calls get_audio_chunk(clear=True) again and again.
NextCapture ==
    \/ Start
    \/ Callback
    \/ GetChunk

SpecCapture == Init /\ [][NextCapture]_vars

\* ------------------------------------------------------------------------
\* Properties
\* ------------------------------------------------------------------------

\* the names of the items a queue holds, oldest first
Ids(q) == [i \in 1..Len(q) |-> q[i].id]

\* producers between a failed put_nowait and the count of their eviction
CountingAudio == {v \in Workers : pc[v] \in {"p_evict", "p_reput", "p_drop"}}

\* C1: after N pushes onto a queue of capacity C with no pop in between, the
\* queue holds exactly min(N, C) items: the most recently pushed ones, in the
\* order they were pushed.  Both queues.
C1_QueueHoldsLastPushed ==
    /\ (~disturbed.aq /\ MidPushAudio = {}) =>
          Ids(audio_queue) = LastN(hist.aq, Min(Len(hist.aq), QueueMaxsize))
    /\ (~disturbed.tq /\ MidPushTranscript = {}) =>
          Ids(transcript_queue) = LastN(hist.tq, Min(Len(hist.tq), QueueMaxsize))

\* more segments than the transcript queue holds were pushed, none was popped
C1_Witness ==
    /\ ~disturbed.tq
    /\ MidPushTranscript = {}
    /\ Len(hist.tq) > QueueMaxsize
    /\ Len(transcript_queue) = QueueMaxsize

\* C2: after the producer pushed N non-silent chunks onto the audio queue of
\* capacity C with no pop in between, chunks_dropped is max(0, N - C).
C2_DropCount ==
    (~disturbed.aq /\ CountingAudio = {}) =>
        stats.chunks_dropped = Max(0, Len(hist.aq) - QueueMaxsize)

\* more chunks than the audio queue holds were pushed, none was popped
C2_Witness ==
    /\ ~disturbed.aq
    /\ CountingAudio = {}
    /\ Len(hist.aq) > QueueMaxsize
    /\ stats.chunks_dropped > 0

\* C3 (as claimed): chunks_dropped counts the evictions of both queues, so
\* after N segments were pushed onto the transcript queue of capacity C with
\* no pop in between, chunks_dropped is at least max(0, N - C).
C3_TranscriptEvictionsCounted ==
    (~disturbed.tq /\ MidPushTranscript = {}) =>
        stats.chunks_dropped >= Max(0, Len(hist.tq) - QueueMaxsize)

\* C4 (as claimed): the step that ends a push leaves the pushed item at the
\* tail of the queue, whatever pops and drains happened during the push.
C4_PushAdmitsNewest ==
    [][\A w \in Workers :
          /\ (pc[w] \in {"p_put", "p_evict", "p_reput"}
                 /\ pc'[w] \notin {"p_put", "p_evict", "p_reput"})
             => (audio_queue' # <<>>
                   /\ audio_queue'[Len(audio_queue')] = audio[w])
          /\ (pc[w] \in {"w_put", "w_evict", "w_reput"}
                 /\ segments'[w] # segments[w])
             => (transcript_queue' # <<>>
                   /\ transcript_queue'[Len(transcript_queue')] = Head(segments[w]))
      ]_vars

\* C5 (as claimed): a push removes a queued item only when the queue is at
\* capacity at the moment of the removal.
C5_EvictOnlyWhenFull ==
    [][\A w \in Workers :
          /\ (pc[w] = "p_evict" /\ pc'[w] = "p_reput")
             => Len(audio_queue) = QueueMaxsize
          /\ (pc[w] = "w_evict" /\ pc'[w] = "w_reput")
             => Len(transcript_queue) = QueueMaxsize
      ]_vars

\* C6: the producer iteration that reads a chunk whose rms is below the
\* silence threshold goes back to the top of the loop leaving chunks_captured,
\* chunks_dropped and the audio queue as they were; no chunk below the
\* threshold is ever on the audio queue.
C6_SilentChunkSkipped ==
    [][/\ \A w \in Workers :
             (pc[w] = "p_sleep" /\ pc'[w] # "p_sleep"
                 /\ audio'[w].n > 0 /\ audio'[w].rms < SilenceThreshold)
             => (pc'[w] = "p_loop" /\ stats' = stats /\ audio_queue' = audio_queue)
       /\ \A i \in 1..Len(audio_queue') : audio_queue'[i].rms >= SilenceThreshold
      ]_vars

\* a producer has just skipped a silent chunk, with chunks already captured
C6_Witness ==
    \E w \in Workers :
        /\ pc[w] = "p_loop"
        /\ audio[w].n > 0
        /\ audio[w].rms < SilenceThreshold
        /\ stats.chunks_captured > 0
        /\ audio_queue # <<>>

\* C7: start() on a running pipeline and stop() on a stopped one return
\* without an exception and change nothing: the running flag, the queues, the
\* engine references, the thread list, the stats and every thread are as they
\* were, and no thread is started.
C7_NoOpCalls ==
    [][/\ (cpc = "start" /\ running /\ cpc' # cpc)
          => (cpc' = "idle" /\ ret' = "start:already_running"
                /\ UNCHANGED <<pipeline_vars, pc>>)
       /\ (cpc = "stop" /\ ~running /\ cpc' # cpc)
          => (cpc' = "idle" /\ ret' = "stop:not_running"
                /\ UNCHANGED <<pipeline_vars, pc>>)
       /\ (cpc = "idle" /\ cpc' # cpc) => UNCHANGED <<pipeline_vars, pc>>
      ]_vars

\* start() has returned from a call made while the three workers were running
C7_Witness ==
    /\ ret = "start:already_running"
    /\ cpc = "idle"
    /\ running
    /\ \A i \in 1..3 : pc[threads[i]] # "unborn"

\* the statements of start() before the running flag is set
StartBody == {"init_whisper", "init_ollama", "init_capture", "warm_up",
              "capture_start"}

\* C8: a start() that raises (engine construction, capture start) leaves the
\* pipeline stopped: the flag was never set, so a later start() is not taken
\* for "already running", and no worker of this start() exists.
C8_FailedStartLeavesStopped ==
    [][/\ (ret' = "start:raised" /\ ret # "start:raised")
          => (cpc \in StartBody /\ cpc' = "idle" /\ ~running'
                /\ UNCHANGED <<pc, threads>>)
       /\ (cpc' \in StartBody \/ ret' = "start:raised")
          => (~running' /\ \A w \in Workers : w[1] > nstarts' => pc'[w] = "unborn")
      ]_vars

\* start() has raised after constructing the engines
C8_Witness ==
    /\ ret = "start:raised"
    /\ cpc = "idle"
    /\ engines.capture = 1
    /\ ~running
    /\ \A w \in Workers : pc[w] = "unborn"

\* C9 (as claimed): when the warm-up request fails, start() fails before
\* Running is entered: the pipeline is never running with a failed warm-up.
C9_WarmUpFailureFailsStart == warm_up = "failed" => ~running

\* C9 (amended): a failed warm-up does not fail start(): warm_up() returns
\* normally, start() goes on to start the capture, only the capture can still
\* make it raise, and when start() returns the pipeline is running with its
\* three workers launched.
C9_WarmUpFailureTolerated ==
    [][/\ (cpc = "warm_up" /\ cpc' # cpc)
          => (cpc' = "capture_start" /\ ret' = ret
                /\ UNCHANGED <<pipeline_vars, pc>>)
       /\ (warm_up = "failed" /\ ret' = "start:raised") => cpc = "capture_start"
       /\ (warm_up = "failed" /\ ret' = "start:ok")
          => (running' /\ \A i \in 1..3 : pc'[threads'[i]] # "unborn")
      ]_vars

\* the warm-up failed and the pipeline is running, the last worker about to
\* be launched
C9_Witness ==
    /\ warm_up = "failed"
    /\ running
    /\ cpc = "launch"
    /\ ci = 3

\* the translation stage's statements between the pop and the sink call
Translating == {"o_translate", "o_count", "o_deliver"}

\* the request of the translate call failed
Failed(o) == o \in {"timeout", "error"}

\* C11: a failed translation request (timeout, connection loss, malformed
\* response) never drops the transcript and never ends the stage: translate
\* returns None, the worker goes on to count and to hand the sink one
\* PipelineItem that carries the popped segment, with no translation, and only
\* the sink call itself can keep the worker from looping on.
C11_FailedTranslationDelivered ==
    [][\A w \in Workers :
          /\ (pc[w] = "o_get" /\ pc'[w] = "o_translate")
             => seg'[w] = Head(transcript_queue)
          /\ (pc[w] = "o_translate" /\ pc'[w] # pc[w] /\ Failed(request'[w]))
             => (pc'[w] = "o_count" /\ result'[w] = NoResult /\ seg'[w] = seg[w])
          /\ (pc[w] = "o_count" /\ pc'[w] # pc[w] /\ Failed(request[w]))
             => (pc'[w] = "o_deliver" /\ result'[w] = NoResult /\ seg'[w] = seg[w])
          /\ (pc[w] = "o_deliver" /\ pc'[w] # pc[w] /\ Failed(request[w]))
             => (last_delivered' = seg[w].id /\ seg[w] # NoSeg
                   /\ ~result[w].present /\ pc'[w] \in {"o_loop", "crashed"})
      ]_vars

\* the worker is about to deliver the item of a second failed translation
C11_Witness ==
    \E w \in Workers :
        /\ pc[w] = "o_deliver"
        /\ request[w] = "timeout"
        /\ ~result[w].present
        /\ last_delivered > 0
        /\ last_delivered < seg[w].id

\* C12: a segment whose language tag is neither "ru" nor "en" is delivered to
\* the sink as a PipelineItem that carries the segment and no
\* TranslationResult (no request is made for it), and the stage does not end
\* because of it.
C12_UnrecognizedLanguageDelivered ==
    [][\A w \in Workers :
          /\ (pc[w] = "o_translate" /\ pc'[w] # pc[w] /\ ~Recognized(seg[w].language))
             => (pc'[w] = "o_count" /\ request'[w] = "none"
                   /\ ~result'[w].present /\ seg'[w] = seg[w])
          /\ (pc[w] \in {"o_count", "o_deliver"} /\ ~Recognized(seg[w].language))
             => (~result[w].present /\ seg'[w] \in {seg[w], NoSeg})
          /\ (pc[w] = "o_deliver" /\ pc'[w] # pc[w] /\ ~Recognized(seg[w].language))
             => (last_delivered' = seg[w].id /\ pc'[w] \in {"o_loop", "crashed"})
      ]_vars

\* the worker is about to deliver a segment tagged "de", after another item
C12_Witness ==
    \E w \in Workers :
        /\ pc[w] = "o_deliver"
        /\ seg[w].language = "de"
        /\ ~result[w].present
        /\ last_delivered > 0

\* every worker that was launched is between two iterations of its loop (or
\* has ended in the sink call), and nothing is queued
Quiescent ==
    /\ cpc = "idle"
    /\ running
    /\ audio_queue = <<>>
    /\ transcript_queue = <<>>
    /\ \A w \in Workers :
          \/ pc[w] \in {"unborn", "p_loop", "p_sleep", "w_loop", "w_get", "o_loop", "o_get"}
          \/ (pc[w] = "crashed" /\ w[2] = "ollama")

\* C13: end to end.  The item the sink receives for a segment with a
\* recognized tag whose request succeeded has that segment as its transcript
\* and the collaborator's result for that text and tag as its translation;
\* and once the pipeline, running since its first start(), has worked off one
\* captured chunk that recognition reported as one such segment, the sink has
\* received exactly one item.
C13_EndToEnd ==
    [][/\ \A w \in Workers :
             /\ (pc[w] = "w_transcribe" /\ pc'[w] = "w_count")
                => \A i \in 1..Len(segments'[w]) : segments'[w][i].id = nsegs + i
             /\ (pc[w] \in {"w_put", "w_reput"} /\ segments'[w] # segments[w]
                    /\ pc'[w] # "crashed")
                => (transcript_queue' # <<>>
                      /\ transcript_queue'[Len(transcript_queue')] = Head(segments[w]))
             /\ (pc[w] = "o_get" /\ pc'[w] = "o_translate")
                => seg'[w] = Head(transcript_queue)
             /\ (pc[w] \in {"o_translate", "o_count"}) => seg'[w] = seg[w]
             /\ (pc[w] = "o_deliver" /\ pc'[w] # pc[w] /\ request[w] = "ok")
                => /\ last_delivered' = seg[w].id
                   /\ result[w].present
                   /\ result[w].source_text = seg[w].id
                   /\ result[w].target_language
                         = (IF seg[w].language = "ru" THEN "en" ELSE "ru")
       /\ (Quiescent' /\ nstarts' = 1
              /\ stats'.chunks_captured = 1 /\ stats'.chunks_dropped = 0
              /\ stats'.chunks_transcribed = 1 /\ nsegs' = 1)
          => (stats'.chunks_translated = 1 /\ last_delivered' = 1)
      ]_vars

\* one chunk, one segment, one item delivered, everything at rest
C13_Witness ==
    /\ Quiescent
    /\ stats.chunks_captured = 1
    /\ stats.chunks_transcribed = 1
    /\ nsegs = 1
    /\ stats.chunks_translated = 1
    /\ last_delivered = 1
    /\ \A w \in Workers : pc[w] # "crashed"

\* line 298-299: the coverage _print_stats reports, in percent (whole part)
Coverage ==
    IF stats.chunks_captured > 0
    THEN (stats.chunks_transcribed * 100) \div stats.chunks_captured
    ELSE 0

StepsToEnd(p, n) ==
    CASE p \in {"done", "crashed", "unborn"} -> 0
      [] p \in {"p_loop", "p_sleep", "w_loop", "o_loop"} -> 1
      [] p = "p_drop"       -> 2
      [] p = "p_reput"      -> 3
      [] p = "p_evict"      -> 4
      [] p = "p_put"        -> 5
      [] p = "p_count"      -> 6
      [] p = "w_reput"      -> 3 * n - 1
      [] p = "w_evict"      -> 3 * n
      [] p = "w_put"        -> 3 * n + 1
      [] p = "w_count"      -> 3 * n + 2
      [] p = "w_transcribe" -> 3 * MaxSegments + 3
      [] p = "w_get"        -> 3 * MaxSegments + 4
      [] p = "o_deliver"    -> 2
      [] p = "o_count"      -> 3
      [] p = "o_translate"  -> 4
      [] p = "o_get"        -> 5

\* the worker is a live thread
Alive(w) == pc[w] \notin {"unborn", "done", "crashed"}

\* C15: cooperative cancellation is live.  Once stop() has cleared the
\* running flag, only a later start() sets it again, and until then a live
\* worker is never blocked: its next statement can always be executed, whether its queue is
\* empty, non-empty or drained (the pop is timed, the pushes do not wait); and
\* every statement it executes brings it strictly nearer to the end of its
\* thread.  So a worker whose calls return ends within StepsToEnd steps of
\* its own.
C15_WorkersTerminate ==
    [][\A w \in Workers :
          (Alive(w) /\ ~running)
          => /\ running' => cpc = "set_running"
             /\ ENABLED Worker(w)
             /\ (pc'[w] # pc[w] \/ segments'[w] # segments[w])
                => StepsToEnd(pc'[w], Len(segments'[w]))
                      < StepsToEnd(pc[w], Len(segments[w]))
      ]_vars

\* stop() has returned with a worker blocked in the timed get of an empty
\* queue, and another still in a collaborator call
C15_Witness ==
    /\ ret = "stop:ok"
    /\ ~running
    /\ \E w \in Workers : pc[w] = "w_get" /\ audio_queue = <<>>
    /\ \E w \in Workers : pc[w] = "o_translate"

\* the statements of stop() after its guard
StopBody == {"stop_capture", "drain_audio", "drain_transcript", "join",
             "stop_finish"}

\* the most statements stop() still executes from position c, when no worker
\* pushes meanwhile
StopStepsLeft(c, i, aq, tq) ==
    CASE c = "stop_finish"      -> 1
      [] c = "join"             -> 5 - i
      [] c = "drain_transcript" -> 5 + Len(tq)
      [] c = "drain_audio"      -> 6 + QueueMaxsize + Len(aq)
      [] c = "stop_capture"     -> 7 + 2 * QueueMaxsize
      [] OTHER                  -> 0

\* C16: stop() on a running pipeline always completes.  Wherever stop() is,
\* its next statement can be executed whatever the workers are doing (a join
\* does not wait for a live worker beyond its timeout), every statement it
\* executes brings it nearer to its return, and when it returns the pipeline
\* reports not running.
C16_StopCompletes ==
    [][/\ (cpc = "stop" /\ running /\ cpc' # cpc)
          => (cpc' = "stop_capture" /\ ~running')
       /\ cpc \in StopBody
          => /\ ENABLED Stop
             /\ ~running'
             /\ (cpc' # cpc \/ ci' # ci)
                => StopStepsLeft(cpc', ci', audio_queue', transcript_queue')
                      < StopStepsLeft(cpc, ci, audio_queue, transcript_queue)
             /\ (cpc = "drain_audio" /\ cpc' = cpc /\ UNCHANGED <<pc, local_vars>>)
                => Len(audio_queue') < Len(audio_queue)
             /\ (cpc = "drain_transcript" /\ cpc' = cpc /\ UNCHANGED <<pc, local_vars>>)
                => Len(transcript_queue') < Len(transcript_queue)
             /\ cpc' = "idle" => (ret' = "stop:ok" /\ ~running')
      ]_vars

\* stop() has returned while a worker is still inside transcribe() and
\* another inside the sink call
C16_Witness ==
    /\ ret = "stop:ok"
    /\ cpc = "idle"
    /\ ~running
    /\ \E w \in Workers : pc[w] = "w_transcribe"
    /\ \E w \in Workers : pc[w] = "o_deliver"

\* the workers that hold a chunk: producers pushing one, whisper workers about
\* to transcribe one
ChunkHands == {w \in Workers : pc[w] \in {"p_put", "p_evict", "p_reput", "w_transcribe"}}

\* the chunks that are somewhere: on the audio queue or in a worker's hands
ChunkIds ==
    {audio_queue[k].id : k \in 1..Len(audio_queue)}
        \cup {audio[w].id : w \in ChunkHands}

\* the places that hold a chunk
ChunkPlaces == Len(audio_queue) + Cardinality(ChunkHands)

\* the ollama workers that hold a segment, between the pop and the sink call
SegmentHands == {w \in Workers : pc[w] \in Translating}

\* the positions of the lists the whisper workers are pushing
SegmentSlots == UNION {{<<w, k>> : k \in 1..Len(segments[w])} : w \in Workers}

\* the segments that are somewhere: on the transcript queue, in a list being
\* pushed, or in an ollama worker's hands
SegmentIds ==
    {transcript_queue[k].id : k \in 1..Len(transcript_queue)}
        \cup {segments[sl[1]][sl[2]].id : sl \in SegmentSlots}
        \cup {seg[w].id : w \in SegmentHands}

\* the places that hold a segment
SegmentPlaces ==
    Len(transcript_queue) + Cardinality(SegmentSlots) + Cardinality(SegmentHands)

\* C17: delivery is at most once.  A chunk or segment is in one place at a
\* time (a queue position or one worker's hands), so it is transcribed,
\* translated and delivered by one worker, once: the transcribe step and the
\* sink step give their item up.  An item that has left every place (it was
\* transcribed, delivered, evicted, or removed by the drain) never comes back:
\* the only new items are newly captured chunks and newly produced segments.
C17_AtMostOnce ==
    [][/\ Cardinality(ChunkIds') = ChunkPlaces'
       /\ Cardinality(SegmentIds') = SegmentPlaces'
       /\ ChunkIds' \ ChunkIds \subseteq (stats.chunks_captured + 1)..stats'.chunks_captured
       /\ SegmentIds' \ SegmentIds \subseteq (nsegs + 1)..nsegs'
       /\ \A w \in Workers :
             /\ (pc[w] = "w_transcribe" /\ pc'[w] # pc[w])
                => (audio[w].id \in ChunkIds /\ audio[w].id \notin ChunkIds')
             /\ (pc[w] = "o_deliver" /\ pc'[w] # pc[w])
                => (seg[w].id \in SegmentIds /\ seg[w].id \notin SegmentIds'
                      /\ last_delivered' = seg[w].id)
      ]_vars

\* a segment is being delivered after an earlier one was evicted or drained:
\* the earlier one is nowhere
C17_Witness ==
    \E w \in Workers :
        /\ pc[w] = "o_deliver"
        /\ seg[w].id = 3
        /\ last_delivered = 1
        /\ 2 \notin SegmentIds
        /\ stats.chunks_dropped = 0

\* C18 (as claimed): the segments reach the sink in the order in which they
\* were produced and pushed: a segment handed to the sink is never older
\* than the one handed to it before.
C18_DeliveredInPushOrder ==
    [][\A w \in Workers :
          (pc[w] = "o_deliver" /\ pc'[w] # pc[w]) => seg[w].id > last_delivered
      ]_vars

\* C19: the item handed to the sink carries the segment that was popped, and
\* its translation is absent exactly when the request failed or the
\* segment's language is not one of the two recognized tags.
C19_ItemWellFormed ==
    [][\A w \in Workers :
          (pc[w] = "o_deliver" /\ pc'[w] # pc[w])
          => /\ seg[w] # NoSeg
             /\ seg[w].id \in 1..nsegs
             /\ seg[w].language \in Langs
             /\ ~result[w].present
                  <=> (Failed(request[w]) \/ ~Recognized(seg[w].language))
             /\ result[w].present => result[w].source_text = seg[w].id
      ]_vars

\* a second item is about to be handed to the sink, with the translation of
\* its segment, the request for it having succeeded
C19_Witness ==
    \E w \in Workers :
        /\ pc[w] = "o_deliver"
        /\ seg[w].id = 2
        /\ Recognized(seg[w].language)
        /\ request[w] = "ok"
        /\ result[w].present
        /\ last_delivered = 1

\* the threads of the translation stage that are inside the sink call
InSink == {w \in Workers : pc[w] = "o_deliver"}

\* C20 (as claimed): at most one sink call is in progress at a time, and no
\* segment is popped from the transcript queue while one is.
C20_OneSinkCallAtATime ==
    [][/\ Cardinality(InSink') <= 1
       /\ \A w \in Workers :
             (pc[w] = "o_get" /\ seg'[w] # NoSeg) => InSink = {}
      ]_vars

\* the live threads of one stage
Stage(role) == {w \in Workers : w[2] = role /\ Alive(w)}

\* C21: a slow or blocked downstream stage does not stall the stages
\* upstream of it.  While a translation worker is inside translate() or the
\* sink, every recognition worker and every producer can execute its next
\* statement; while a recognition worker is inside transcribe(), every
\* producer can.
C21_UpstreamNotStalled ==
    /\ (\E o \in Workers : pc[o] \in Translating)
          => \A v \in Stage("whisper") \cup Stage("producer") : ENABLED Worker(v)
    /\ (\E v \in Workers : pc[v] = "w_transcribe")
          => \A p \in Stage("producer") : ENABLED Worker(p)

\* the translation worker is inside translate() with segment 1 and the
\* transcript queue is full behind it; a recognition worker is about to take
\* the next chunk and a producer is in its loop
C21_Witness ==
    /\ \E o \in Workers : pc[o] = "o_translate" /\ seg[o].id = 1
    /\ Len(transcript_queue) = QueueMaxsize
    /\ audio_queue # <<>>
    /\ \E v \in Workers : pc[v] = "w_get"
    /\ \E p \in Workers : pc[p] = "p_sleep"

\* a worker that holds an item it has still to push, or is ending its push
Pushing == {"p_count", "p_put", "p_evict", "p_reput", "p_drop",
            "w_count", "w_put", "w_evict", "w_reput"}

\* C22: the producer side never blocks on a queue.  A producer that has read
\* a chunk, and a recognition worker that has segments to push, can always
\* execute its next statement, whatever the queues hold and wherever the
\* other workers are; and every statement it executes brings it strictly
\* nearer to the head of its loop, which it reaches without an exception.
C22_PushNeverBlocks ==
    [][\A w \in Workers :
          pc[w] \in Pushing
          => /\ ENABLED Worker(w)
             /\ pc'[w] # "crashed"
             /\ (pc'[w] # pc[w] \/ segments'[w] # segments[w])
                => StepsToEnd(pc'[w], Len(segments'[w]))
                      < StepsToEnd(pc[w], Len(segments[w]))
      ]_vars

\* the recognition worker has found the transcript queue full and is about
\* to evict, while a producer is about to push a chunk
C22_Witness ==
    /\ \E w \in Workers : pc[w] = "w_evict" /\ Len(segments[w]) = 1
    /\ Len(transcript_queue) = QueueMaxsize
    /\ \E p \in Workers : pc[p] = "p_put"

\* line 305: is_running returns self._running
IsRunning == running

\* the coordinator's lifecycle state: Starting from the guard of start() to
\* the assignment of the flag (lines 104-118), Stopping from the clearing of
\* the flag to the return of stop() (lines 155-168), and otherwise Running
\* or Stopped as the flag says
Lifecycle ==
    CASE cpc \in StartBody \cup {"set_running"} -> "Starting"
      [] cpc \in StopBody                         -> "Stopping"
      [] OTHER -> IF running THEN "Running" ELSE "Stopped"

\* the transitions of Stopped -> Starting -> Running -> Stopping -> Stopped
LifecycleChain == {<<"Stopped", "Starting">>, <<"Starting", "Running">>,
                   <<"Running", "Stopping">>, <<"Stopping", "Stopped">>}

\* C23 (as claimed): the lifecycle moves only along
\* Stopped -> Starting -> Running -> Stopping -> Stopped.
C23_LifecycleChainOnly ==
    [][Lifecycle' # Lifecycle => <<Lifecycle, Lifecycle'>> \in LifecycleChain]_vars

\* C23 (amended): the lifecycle moves along
\* Stopped -> Starting -> Running -> Stopping -> Stopped, and from Starting
\* back to Stopped when start() raises; only a statement of start() or stop()
\* moves it or changes the flag, never a step or a failure of a worker; and
\* the pipeline reports not running while Starting and while Stopping.
C23_Lifecycle ==
    [][/\ Lifecycle' # Lifecycle
          => \/ <<Lifecycle, Lifecycle'>> \in LifecycleChain
             \/ /\ <<Lifecycle, Lifecycle'>> = <<"Starting", "Stopped">>
                /\ ret' = "start:raised"
       /\ UNCHANGED caller_vars => (Lifecycle' = Lifecycle /\ IsRunning' = IsRunning)
       /\ Lifecycle' \in {"Starting", "Stopping"} => ~IsRunning'
      ]_vars

\* the pipeline is Stopped again after a whole cycle during which a worker
\* died of an exception
C23_Witness ==
    /\ Lifecycle = "Stopped"
    /\ ret = "stop:ok"
    /\ \E w \in Workers : pc[w] = "crashed"

\* C24: the stats snapshot is atomic and a copy.  No counter changes while
\* the property copies the dict, so the dict it returns is the whole counter
\* record as it stands at the instant of the return; and a write into the
\* returned dict changes no counter of the pipeline.
C24_SnapshotAtomicCopy ==
    [][/\ rpc \in {"copy", "release"} => stats' = stats
       /\ (rpc = "release" /\ rpc' = "returned") => snapshot' = stats'
       /\ (rpc = "returned" /\ rpc' = "idle")
          => (stats' = stats /\ snapshot' # snapshot)
      ]_vars

\* a snapshot has been returned that holds a counted chunk, while a worker
\* is about to update a counter
C24_Witness ==
    /\ rpc = "returned"
    /\ snapshot = stats
    /\ stats.chunks_transcribed = 1
    /\ \E w \in Workers : pc[w] = "o_count"

\* C25: in every reachable state each of the two queues holds at most its
\* capacity, whatever the interleaving of pushes, pops and drains.
C25_QueuesBounded ==
    /\ Len(audio_queue) <= QueueMaxsize
    /\ Len(transcript_queue) <= QueueMaxsize

\* both queues are full, with a recognition worker about to pop a chunk
C25_Witness ==
    /\ Len(audio_queue) = QueueMaxsize
    /\ Len(transcript_queue) = QueueMaxsize
    /\ \E w \in Workers : pc[w] = "w_get"

\* C26: stop() on a running pipeline goes through its steps in this order:
\* the flag is cleared; the capture is stopped; the audio queue, then the
\* transcript queue is drained until found empty; every thread of
\* self._threads is joined, one after the other; and only after the last
\* join has returned are the statistics printed and does stop() return.
C26_StopOrder ==
    [][/\ (cpc = "stop" /\ running /\ cpc' # cpc)
          => (cpc' = "stop_capture" /\ ~running')
       /\ (cpc = "stop_capture" /\ cpc' # cpc)
          => (cpc' = "drain_audio" /\ ~running /\ ~capturing')
       /\ (cpc = "drain_audio" /\ cpc' # cpc)
          => (cpc' = "drain_transcript" /\ ~capturing /\ audio_queue = <<>>)
       /\ (cpc = "drain_transcript" /\ cpc' # cpc)
          => (cpc' = "join" /\ ci' = 1 /\ transcript_queue = <<>>
                /\ Len(threads) = 3)
       /\ (cpc = "join" /\ cpc' = cpc /\ ci' # ci) => ci' = ci + 1
       /\ (cpc = "join" /\ cpc' # cpc)
          => (cpc' = "stop_finish" /\ ci = Len(threads))
       /\ (cpc = "stop_finish" /\ cpc' # cpc)
          => (cpc' = "idle" /\ ret' = "stop:ok" /\ threads' = <<>>)
       /\ cpc' \in StopBody => cpc \in StopBody \cup {"stop"}
      ]_vars

\* the last join has returned with a worker still alive, and stop() is
\* about to print the statistics
C26_Witness ==
    /\ cpc = "stop_finish"
    /\ ~running
    /\ ~capturing
    /\ \E w \in Workers : Alive(w)

\* C27: start() on a stopped pipeline goes through its steps in this order:
\* the three collaborators are constructed, the warm-up call is made, the
\* capture is started, the flag is set, the three threads are created and
\* then started one by one.  A thread is started only by this loop, with the
\* flag set, and a start() that returns normally has started three.
C27_StartOrder ==
    [][/\ (cpc = "start" /\ ~running /\ cpc' # cpc) => cpc' = "init_whisper"
       /\ (cpc = "init_whisper" /\ cpc' \notin {cpc, "idle"})
          => (cpc' = "init_ollama" /\ engines'.whisper # 0)
       /\ (cpc = "init_ollama" /\ cpc' \notin {cpc, "idle"})
          => (cpc' = "init_capture" /\ engines'.ollama # 0)
       /\ (cpc = "init_capture" /\ cpc' \notin {cpc, "idle"})
          => (cpc' = "warm_up" /\ engines'.capture # 0 /\ ~capturing')
       /\ (cpc = "warm_up" /\ cpc' \notin {cpc, "idle"})
          => (cpc' = "capture_start" /\ warm_up' \in WarmUpResults)
       /\ (cpc = "capture_start" /\ cpc' \notin {cpc, "idle"})
          => (cpc' = "set_running" /\ capturing' /\ ~running')
       /\ (cpc = "set_running" /\ cpc' # cpc)
          => (cpc' = "create_threads" /\ running' /\ capturing)
       /\ (cpc = "create_threads" /\ cpc' # cpc)
          => /\ cpc' = "launch"
             /\ ci' = 1
             /\ Len(threads') = 3
             /\ \A i \in 1..3 : pc[threads'[i]] = "unborn" /\ threads'[i][2] = Roles[i]
       /\ (cpc = "launch" /\ cpc' # cpc)
          => /\ cpc' = "idle"
             /\ ret' = "start:ok"
             /\ ci = 3
             /\ \A i \in 1..3 : pc'[threads[i]] # "unborn"
       /\ \A w \in Workers :
             (pc[w] = "unborn" /\ pc'[w] # "unborn")
             => /\ cpc = "launch"
                /\ w = threads[ci]
                /\ running
                /\ pc'[w] = FirstPc(w)
                /\ \A v \in Workers \ {w} : pc'[v] = pc[v]
      ]_vars

\* start() is starting its third thread while the first has already found
\* the flag set and entered its loop
C27_Witness ==
    /\ cpc = "launch"
    /\ ci = 3
    /\ running
    /\ pc[threads[1]] = "p_sleep"
    /\ pc[threads[3]] = "unborn"

\* C28 (as claimed): no partial-item cancellation.  A worker leaves its loop
\* only at the loop test, with nothing in hand; and once the flag is cleared,
\* a recognition call in flight still has every segment of its result pushed
\* to the transcript queue, and a translation call in flight still has its
\* item counted and handed to the sink.
C28_InFlightCompletes ==
    [][\A w \in Workers :
          /\ (pc'[w] = "done" /\ pc[w] # "done")
             => /\ ~running
                /\ pc[w] \in {"p_loop", "p_sleep", "w_loop", "o_loop"}
                /\ segments[w] = <<>>
                /\ seg[w] = NoSeg
          /\ (~running /\ pc[w] = "w_transcribe" /\ pc'[w] \notin {pc[w], "crashed"})
             => pc'[w] = "w_count"
          /\ (~running /\ pc[w] = "w_count" /\ pc'[w] # pc[w])
             => (pc'[w] = AfterSegment(segments[w]) /\ segments'[w] = segments[w])
          /\ (~running /\ pc[w] \in {"w_put", "w_evict", "w_reput"}
                 /\ segments'[w] # segments[w])
             => /\ transcript_queue' # <<>>
                /\ transcript_queue'[Len(transcript_queue')] = Head(segments[w])
                /\ segments'[w] = Tail(segments[w])
          /\ (~running /\ pc[w] = "o_translate" /\ pc'[w] # pc[w])
             => (pc'[w] = "o_count" /\ seg'[w] = seg[w])
          /\ (~running /\ pc[w] = "o_count" /\ pc'[w] # pc[w])
             => (pc'[w] = "o_deliver" /\ seg'[w] = seg[w] /\ result'[w] = result[w])
          /\ (~running /\ pc[w] = "o_deliver" /\ pc'[w] # pc[w])
             => last_delivered' = seg[w].id
      ]_vars

\* C29 (as claimed): the recognition stage pushes every segment of the list
\* transcribe() returned onto the transcript queue, one at a time and in the
\* order of the list; for an empty list it pushes nothing and goes back to
\* the head of its loop.
C29_EverySegmentPushedInOrder ==
    [][\A w \in Workers :
          /\ (pc[w] = "w_transcribe" /\ pc'[w] = "w_count")
             => \A i \in 1..Len(segments'[w]) : segments'[w][i].id = nsegs + i
          /\ (pc[w] = "w_count" /\ pc'[w] # pc[w])
             => /\ pc'[w] = (IF segments[w] = <<>> THEN "w_loop" ELSE "w_put")
                /\ UNCHANGED <<transcript_queue, segments>>
          /\ (pc[w] \in {"w_put", "w_evict", "w_reput"} /\ segments'[w] # segments[w])
             => /\ segments'[w] = Tail(segments[w])
                /\ transcript_queue' # <<>>
                /\ transcript_queue'[Len(transcript_queue')] = Head(segments[w])
                /\ pc'[w] = (IF segments'[w] = <<>> THEN "w_loop" ELSE "w_put")
          /\ (pc[w] \in {"w_put", "w_evict", "w_reput"} /\ pc'[w] # pc[w])
             => Len(transcript_queue') \in {Len(transcript_queue) - 1,
                                            Len(transcript_queue),
                                            Len(transcript_queue) + 1}
      ]_vars

\* C30 (as claimed): chunks_transcribed is incremented for a chunk only when
\* transcribe() returned at least one segment for it: not for an empty list,
\* and not when transcribe() raised.
C30_TranscribedCountsNonEmpty ==
    [][/\ \A w \in Workers :
             (pc[w] = "w_count" /\ pc'[w] # pc[w])
             => stats'.chunks_transcribed
                   = stats.chunks_transcribed + (IF segments[w] = <<>> THEN 0 ELSE 1)
       /\ stats'.chunks_transcribed # stats.chunks_transcribed
          => \E w \in Workers : pc[w] = "w_count" /\ pc'[w] # pc[w]
      ]_vars

\* the blocks 1..n in the order appended
Blocks(n) == [i \in 1..n |-> i]

\* the blocks get_audio_chunk has taken out of the buffer for the chunk it
\* is about to return
InHand == IF gpc = "convert" THEN raw ELSE <<>>

\* C31: the read of the capture buffer is an atomic snapshot-and-clear.  The
\* chunks returned so far, the chunk about to be returned and the buffer
\* hold, end to end, every block appended, each once and in the order
\* appended: no block is lost between two chunks and none is in two chunks.
C31_SnapshotAndClear ==
    returned \o InHand \o audio_buffer = Blocks(nblocks)

\* two chunks have been returned, and a block was appended while the second
\* was being converted
C31_Witness ==
    /\ returned = <<1>>
    /\ gpc = "convert"
    /\ raw = <<2>>
    /\ audio_buffer = <<3>>

\* Pipeline._print_stats  (pipeline.py:279-301): the kinds of line the final
\* statistics hold.  The four counters and the coverage are always printed,
\* an average only when its counter is positive; nothing else is printed.
PrintStats ==
    {"chunks_captured", "chunks_transcribed", "chunks_translated",
     "chunks_dropped", "coverage"}
    \cup (IF stats.chunks_transcribed > 0 THEN {"avg_whisper_time"} ELSE {})
    \cup (IF stats.chunks_translated > 0 THEN {"avg_translate_time"} ELSE {})

\* a thread of self._threads that is still alive: its join(timeout=5) has
\* returned without the thread having ended
JoinTimedOut == \E i \in 1..Len(threads) : Alive(threads[i])

\* C32 (as claimed): when a worker has not joined within its bound, the
\* final statistics stop() emits hold a warning about the shutdown timeout.
C32_TimeoutWarned ==
    [][StopFinish /\ JoinTimedOut => "warning" \in PrintStats]_vars

\* the live threads running the worker function of a role
Live(role) == {w \in Workers : w[2] = role /\ Alive(w)}

\* C33 (as claimed): at any time at most one producer, one recognition
\* worker and one translation worker are alive, whatever start() and stop()
\* calls have been made.
C33_OneWorkerPerRole ==
    \A i \in 1..Len(Roles) : Cardinality(Live(Roles[i])) <= 1

\* stop() has returned from a shutdown and start() has not been called since
Stopped == cpc = "idle" /\ ret = "stop:ok"

\* C34 (as claimed): when stop() returns both queues are empty, and they
\* stay empty until the next start().
C34_EmptyWhileStopped ==
    Stopped => audio_queue = <<>> /\ transcript_queue = <<>>

\* C35 (as claimed): once stop() has returned, the sink is not called until
\* start() is called again.
C35_NoSinkCallWhileStopped ==
    [][Stopped => ~(\E w \in Workers : O_Deliver(w))]_vars

\* chunks a producer has counted and not yet enqueued
CountedInHand == Cardinality({w \in Workers : pc[w] \in {"p_put", "p_evict", "p_reput"}})

\* chunks a producer has evicted and is about to count in chunks_dropped
EvictedUncounted == Cardinality({w \in Workers : pc[w] \in {"p_reput", "p_drop"}})

\* the captured chunks that are neither on the audio queue, nor in the
\* producer's hand, nor evicted: those the recognition worker has popped and
\* those stop()'s drain has removed, if every chunk is accounted for
TakenOrDrained ==
    stats.chunks_captured
      - (Len(audio_queue) + stats.chunks_dropped + CountedInHand + EvictedUncounted)

\* this step is a pop by a recognition worker or a removal by stop()'s drain
TakesOrDrains ==
    \/ \E w \in Workers : pc[w] = "w_get" /\ pc'[w] = "w_transcribe"
    \/ cpc = "drain_audio" /\ pc' = pc /\ Len(audio_queue') < Len(audio_queue)

\* C36 (as claimed): every captured chunk is accounted for exactly once:
\* chunks_captured is the chunks on the audio queue, plus those popped by
\* recognition, plus those evicted and counted, plus those drained by stop(),
\* plus the chunk in the producer's hand.  Step by step: the captured chunks
\* outside the queue, the hand and the evictions grow by one when a chunk is
\* popped or drained and do not change otherwise.  (An eviction on its way
\* to being counted is allowed for.)
C36_ChunksAccounted ==
    [][TakenOrDrained' = TakenOrDrained + (IF TakesOrDrains THEN 1 ELSE 0)]_vars

\* the most statements a recognition or translation worker executes before
\* its next pop, from position p with n segments left to push
StepsToPop(p, n) == IF p \in {"w_get", "o_get"} THEN 0 ELSE StepsToEnd(p, n)

\* this step is a collaborator or sink call of worker w that raises
Raises(w) == pc[w] \in {"w_transcribe", "o_deliver"} /\ pc'[w] = "crashed"

\* this step is worker w popping the head of its queue and entering the call
\* of its collaborator with it
Pops(w) ==
    \/ /\ pc[w] = "w_get" /\ audio_queue # <<>>
       /\ audio'[w] = Head(audio_queue) /\ pc'[w] = "w_transcribe"
    \/ /\ pc[w] = "o_get" /\ transcript_queue # <<>>
       /\ seg'[w] = Head(transcript_queue) /\ pc'[w] = "o_translate"

\* this step is worker w's timed get finding its queue empty
FindsNothing(w) ==
    \/ pc[w] = "w_get" /\ audio_queue = <<>>
    \/ pc[w] = "o_get" /\ transcript_queue = <<>>

\* no item of queue q is further from the head in r than it was in q
NoneOvertaken(q, r) ==
    \A i \in 1..Len(q), j \in 1..Len(r) : r[j] = q[i] => j <= i

\* C37: while the pipeline stays running and the collaborator and sink calls
\* return, no retained item waits forever.  A recognition or translation
\* worker never ends and is never blocked; each statement it executes is the
\* pop of the head of its queue into the collaborator's call, or a timed get
\* that found the queue empty, or brings it strictly nearer to its next pop;
\* a segment popped is handed to the sink three statements later; and an item
\* on a queue only ever moves towards the head.  So under fair scheduling
\* every item not evicted reaches the head and is popped.
C37_NoItemWaitsForever ==
    [][/\ \A w \in Workers :
             (w[2] \in {"whisper", "ollama"} /\ Alive(w) /\ running /\ running')
             => /\ ENABLED Worker(w)
                /\ ((pc'[w] # pc[w] \/ segments'[w] # segments[w]) /\ ~Raises(w))
                   => /\ pc'[w] \notin {"done", "crashed"}
                      /\ \/ Pops(w)
                         \/ FindsNothing(w)
                         \/ StepsToPop(pc'[w], Len(segments'[w]))
                               < StepsToPop(pc[w], Len(segments[w]))
                      /\ pc[w] = "o_deliver" => last_delivered' = seg[w].id
       /\ NoneOvertaken(audio_queue, audio_queue')
       /\ NoneOvertaken(transcript_queue, transcript_queue')
      ]_vars

\* one segment has been delivered, the next is being handed to the sink and
\* a third waits on the transcript queue, while a chunk waits on the audio
\* queue for the recognition worker
C37_Witness ==
    /\ running
    /\ last_delivered = 1
    /\ \E w \in Workers : pc[w] = "o_deliver" /\ seg[w].id = 2
    /\ transcript_queue # <<>>
    /\ audio_queue # <<>>
    /\ \E w \in Workers : pc[w] = "w_loop"

\* C38 (as claimed): an exception of the sink callback does not end the
\* translation worker: whatever way the sink call ends, the worker goes back
\* to the head of its loop, from where it pops the next segment.
C38_SinkErrorSurvived ==
    [][\A w \in Workers :
          (pc[w] = "o_deliver" /\ pc'[w] # pc[w]) => pc'[w] = "o_loop"
      ]_vars

\* C39: chunks_translated counts translation attempts.  A segment popped is
\* counted exactly once, whether or not translate() produced a result, and
\* then handed to the sink: the counter grows by one at the count statement
\* and at no other statement, so it equals the items handed to the sink plus
\* those counted and about to be handed over.  No counter is ever reset or
\* decreased, by stop(), by a later start() or by anything else.
C39_TranslatedCountsAttempts ==
    [][/\ stats.chunks_translated = ndelivered + Cardinality(InSink)
       /\ stats'.chunks_translated = ndelivered' + Cardinality(InSink')
       /\ \A i \in 1..Len(Fields) : stats'[Fields[i]] >= stats[Fields[i]]
       /\ \A w \in Workers :
             /\ (pc[w] = "o_translate" /\ pc'[w] # pc[w]) => pc'[w] = "o_count"
             /\ (pc[w] = "o_count" /\ pc'[w] # pc[w])
                => /\ pc'[w] = "o_deliver"
                   /\ stats'.chunks_translated = stats.chunks_translated + 1
       /\ stats'.chunks_translated # stats.chunks_translated
             => \E w \in Workers : pc[w] = "o_count" /\ pc'[w] = "o_deliver"
      ]_vars

\* after a stop() and a second start(), the translation worker is between
\* items: two segments were popped, counted and handed to the sink
C39_Witness ==
    /\ nstarts = 2
    /\ running
    /\ stats.chunks_translated = 2
    /\ ndelivered = 2
    /\ InSink = {}
    /\ \E w \in Workers : pc[w] = "o_loop" /\ request[w] = "none"

\* C10 (as claimed): an exception of transcribe() does not end the whisper
\* worker: it stays in its loop.
C10_TranscribeErrorSkipsChunk ==
    [][\A w \in Workers :
          pc[w] = "w_transcribe" => pc'[w] \in {"w_transcribe", "w_count", "w_loop"}
      ]_vars
====
